---- MODULE Spec2Model ----
(***************************************************************************)
(* Model of the intent-routing and conversational-memory core of the       *)
(* agent (src/agent_executor.py): the per-session memory window, the       *)
(* intent classifier, the router, the two skill handlers and the location  *)
(* resolver with its process-wide location cache.                          *)
(*                                                                         *)
(* Text is modelled as a sequence of one-character strings, so that        *)
(* strip(), lower(), the substring test and the removal of diacritics are  *)
(* computed, not assumed.                                                  *)
(***************************************************************************)
EXTENDS Integers, Sequences, FiniteSets, TLC

(***************************************************************************)
(* Text helpers (Python str operations used by the code).                  *)
(***************************************************************************)

\* str.strip() without arguments removes these characters at both ends.
Whitespace == {" ", "\n", "\t"}

Min(a, b) == IF a < b THEN a ELSE b

\* s[-n:] for n >= 1: the last n elements of s (all of s when it is shorter).
LastN(s, n) == IF Len(s) <= n THEN s ELSE SubSeq(s, Len(s) - n + 1, Len(s))

\* s[:n]: the first n elements of s.
FirstN(s, n) == IF Len(s) <= n THEN s ELSE SubSeq(s, 1, n)

RECURSIVE LStrip(_)
LStrip(s) == IF s = <<>> THEN s
             ELSE IF Head(s) \in Whitespace THEN LStrip(Tail(s)) ELSE s

RECURSIVE RStrip(_)
RStrip(s) == IF s = <<>> THEN s
             ELSE IF s[Len(s)] \in Whitespace THEN RStrip(SubSeq(s, 1, Len(s) - 1)) ELSE s

\* str.strip()
Strip(s) == RStrip(LStrip(s))

\* str.strip(c) for a one-character argument c, as in .strip('"').strip("'")
RECURSIVE LStripChar(_, _)
LStripChar(s, c) == IF s = <<>> THEN s
                    ELSE IF Head(s) = c THEN LStripChar(Tail(s), c) ELSE s

RECURSIVE RStripChar(_, _)
RStripChar(s, c) == IF s = <<>> THEN s
                    ELSE IF s[Len(s)] = c THEN RStripChar(SubSeq(s, 1, Len(s) - 1), c) ELSE s

StripChar(s, c) == RStripChar(LStripChar(s, c), c)

\* str.lower() on the letters the model's texts use.
LowerChar(c) ==
    CASE c = "W" -> "w"
      [] c = "H" -> "h"
      [] c = "N" -> "n"
      [] c = "P" -> "p"
      [] c = "C" -> "c"
      [] c = "M" -> "m"
      [] c = "T" -> "t"
      [] c = "U" -> "u"
      [] c = "À" -> "à"
      [] c = "Ộ" -> "ộ"
      [] OTHER -> c

Lower(s) == [i \in 1..Len(s) |-> LowerChar(s[i])]

\* unicodedata.normalize('NFKD', s) with the combining marks dropped, on the
\* letters the model's texts use.
BaseChar(c) ==
    CASE c = "à" -> "a"
      [] c = "À" -> "A"
      [] c = "ộ" -> "o"
      [] c = "Ộ" -> "O"
      [] c = "ế" -> "e"
      [] c = "ệ" -> "e"
      [] c = "ờ" -> "o"
      [] c = "ừ" -> "u"
      [] c = "ê" -> "e"
      [] OTHER -> c

_strip_diacritics(s) == [i \in 1..Len(s) |-> BaseChar(s[i])]

\* Python's `sub in s` for strings: sub occurs in s as a contiguous run
\* (the empty string occurs in every string).
Contains(s, sub) ==
    \E i \in 0..(Len(s) - Len(sub)) :
        \A j \in 1..Len(sub) : s[i + j] = sub[j]

(***************************************************************************)
(* Session memory store: FallbackMemory and get_or_create_memory.          *)
(* The 'timestamp' a message carries is never read by the code and is left *)
(* out.  The store is modelled on the FallbackMemory branch                *)
(* (LANGCHAIN_AVAILABLE = False), the memory class this repository holds.  *)
(***************************************************************************)

\* get_or_create_memory builds FallbackMemory(k=5).
K == 5

\* A dict without the key: {}.
EmptyDict == [zz \in {} |-> {}]

\* FallbackMemory.__init__
FallbackMemory(k) == [k |-> k, messages |-> <<>>]

\* The variant of save_context that a slip in the slice would give: it keeps
\* the oldest 2k messages instead of the newest.
save_context_keep_oldest(memory, inputs, outputs) ==
    LET m1 == IF "input" \in DOMAIN inputs
              THEN Append(memory.messages, [role |-> "user", content |-> inputs.input])
              ELSE memory.messages
        m2 == IF "output" \in DOMAIN outputs
              THEN Append(m1, [role |-> "assistant", content |-> outputs.output])
              ELSE m1
    IN [memory EXCEPT !.messages =
            IF Len(m2) > memory.k * 2 THEN FirstN(m2, memory.k * 2) ELSE m2]

\* The variant of save_context that appends the assistant message before
\* the user message.
save_context_assistant_first(memory, inputs, outputs) ==
    LET m1 == IF "output" \in DOMAIN outputs
              THEN Append(memory.messages, [role |-> "assistant", content |-> outputs.output])
              ELSE memory.messages
        m2 == IF "input" \in DOMAIN inputs
              THEN Append(m1, [role |-> "user", content |-> inputs.input])
              ELSE m1
    IN [memory EXCEPT !.messages =
            IF Len(m2) > memory.k * 2 THEN LastN(m2, memory.k * 2) ELSE m2]

\* FallbackMemory.save_context
save_context(memory, inputs, outputs) ==
    LET m1 == IF "input" \in DOMAIN inputs
              THEN Append(memory.messages, [role |-> "user", content |-> inputs.input])
              ELSE memory.messages
        m2 == IF "output" \in DOMAIN outputs
              THEN Append(m1, [role |-> "assistant", content |-> outputs.output])
              ELSE m1
    IN [memory EXCEPT !.messages =
            IF Len(m2) > memory.k * 2 THEN LastN(m2, memory.k * 2) ELSE m2]

\* What one save_context call records, in order (the model's own ledger of
\* everything recorded for a session).
Recorded(inputs, outputs) ==
    (IF "input" \in DOMAIN inputs
     THEN <<[role |-> "user", content |-> inputs.input]>> ELSE <<>>)
    \o
    (IF "output" \in DOMAIN outputs
     THEN <<[role |-> "assistant", content |-> outputs.output]>> ELSE <<>>)

\* A lookup that makes a new window for context_id on every call.
get_or_create_memory_fresh(store, context_id) ==
    [s \in DOMAIN store \cup {context_id} |->
        IF s = context_id THEN FallbackMemory(K) ELSE store[s]]

\* get_or_create_memory: the store after the call (the window is created,
\* empty, on the first use of context_id).
get_or_create_memory(store, context_id) ==
    IF context_id \in DOMAIN store
    THEN store
    ELSE [s \in DOMAIN store \cup {context_id} |->
            IF s = context_id THEN FallbackMemory(K) ELSE store[s]]

\* Role label of a rendered line.
RoleLabel(role) ==
    IF role = "user"
    THEN <<"N", "g", "ư", "ờ", "i", " ", "d", "ù", "n", "g">>
    ELSE <<"A", "s", "s", "i", "s", "t", "a", "n", "t">>

\* One rendered line: f"{role}: {msg['content']}"
HistoryLine(msg) == RoleLabel(msg.role) \o <<":", " ">> \o msg.content

\* '\n'.join(lines)
RECURSIVE JoinLines(_)
JoinLines(lines) ==
    IF lines = <<>> THEN <<>>
    ELSE IF Len(lines) = 1 THEN lines[1]
    ELSE lines[1] \o <<"\n">> \o JoinLines(Tail(lines))

\* The lines load_memory_variables renders, before they are joined.
HistoryLines(memory) ==
    LET shown == LastN(memory.messages, memory.k * 2)
    IN [i \in 1..Len(shown) |-> HistoryLine(shown[i])]

\* A render of the last k messages only.
load_memory_variables_last_k(memory) ==
    IF memory.messages = <<>> THEN <<>>
    ELSE LET shown == LastN(memory.messages, memory.k)
         IN JoinLines([i \in 1..Len(shown) |-> HistoryLine(shown[i])])

\* FallbackMemory.load_memory_variables(...)['history']
load_memory_variables(memory) ==
    IF memory.messages = <<>> THEN <<>> ELSE JoinLines(HistoryLines(memory))

(***************************************************************************)
(* Location tables.  A Python dict keeps insertion order and the resolver  *)
(* iterates over the keys, so a table is the sequence of its items, each   *)
(* <<key, value>>, with no key twice; a value is <<lat, lon, name>> with   *)
(* the coordinates in units of 1e-4 degree.                                *)
(***************************************************************************)
DictKeys(d) == {d[i][1] : i \in 1..Len(d)}

DictHas(d, k) == \E i \in 1..Len(d) : d[i][1] = k

\* d[k], for a key of d
DictGet(d, k) == d[CHOOSE i \in 1..Len(d) : d[i][1] = k][2]

\* d[k] = v: the value is replaced in place, a new key goes to the end.
DictSet(d, k, v) ==
    IF DictHas(d, k)
    THEN [i \in 1..Len(d) |-> IF d[i][1] = k THEN <<k, v>> ELSE d[i]]
    ELSE Append(d, <<k, v>>)

\* {**a, **b}
RECURSIVE DictMerge(_, _)
DictMerge(a, b) ==
    IF b = <<>> THEN a
    ELSE DictMerge(DictSet(a, b[1][1], b[1][2]), Tail(b))

N_HaNoi == <<"H", "à", " ", "N", "ộ", "i">>
N_HaNoi_nd == <<"H", "a", " ", "N", "o", "i">>
N_Hue_full == <<"T", "h", "ừ", "a", " ", "T", "h", "i", "ê", "n", " ", "H", "u", "ế">>
N_CaMau == <<"C", "à", " ", "M", "a", "u">>
N_CaMau_nd == <<"C", "a", " ", "M", "a", "u">>
N_Paris == <<"P", "a", "r", "i", "s">>
N_Hue == <<"H", "u", "e">>
N_Hue_vn == <<"H", "u", "ế">>

\* WeatherAgentExecutor.MAJOR_CITIES_FALLBACK, its items for Hà Nội and Huế
\* (4 of the 32 items of the source, in the source's order).
MAJOR_CITIES_FALLBACK ==
    << <<Lower(N_HaNoi), <<210285, 1058542, N_HaNoi>> >>,
       <<Lower(N_HaNoi_nd), <<210285, 1058542, N_HaNoi>> >>,
       <<Lower(N_Hue_vn), <<164637, 1075909, N_Hue_full>> >>,
       <<Lower(N_Hue), <<164637, 1075909, N_Hue_full>> >> >>

\* vietnam_queries: 2 of the 48 names of the source, one that the static
\* table holds and one that only the remote geocoder knows.
vietnam_queries == <<N_HaNoi, N_CaMau>>

\* CLASS_CACHE_DURATION, in seconds.
CLASS_CACHE_DURATION == 86400

(***************************************************************************)
(* The remote geocoder (Open-Meteo search).  An answer is an exception     *)
(* (network error, timeout), a body that is not JSON, or a status with the *)
(* list of results; a result is {name, country_code, latitude, longitude}, *)
(* where coords_ok = FALSE stands for a latitude or longitude that float() *)
(* rejects.                                                                *)
(***************************************************************************)
GeoRaise == [kind |-> "raise", status |-> 0, results |-> <<>>]
GeoBadJson == [kind |-> "badjson", status |-> 200, results |-> <<>>]
GeoHttp(status, results) == [kind |-> "http", status |-> status, results |-> results]
\* No answer yet.
GeoNoAnswer == [kind |-> "none", status |-> 0, results |-> <<>>]

Item(name, cc, lat, lon, ok) ==
    [name |-> name, country_code |-> cc, latitude |-> lat, longitude |-> lon,
     coords_ok |-> ok]

It_HaNoi == Item(N_HaNoi, "VN", 210245, 1058412, TRUE)
It_CaMau == Item(N_CaMau, "vn", 91769, 1051524, TRUE)
It_CaMau_bad == Item(N_CaMau, "VN", 0, 0, FALSE)
It_Paris == Item(N_Paris, "FR", 488566, 23522, TRUE)
It_CaMau_us == Item(N_CaMau_nd, "US", 400000, -750000, TRUE)
It_CaMau_noname == Item(<<>>, "VN", 91769, 1051524, TRUE)

\* The lists of results the geocoder may give for a name when it is up.
GeoKnows(q) ==
    CASE q = N_HaNoi -> { <<It_HaNoi>> }
      [] q = N_CaMau -> { <<It_CaMau>>, <<It_CaMau_bad>> }
      [] q = N_CaMau_nd -> { <<It_CaMau_us, It_CaMau_noname>> }
      [] q = N_Paris -> { <<It_Paris>> }
      [] OTHER -> {}

\* The answers that are failures of the call: they are possible at any time.
GeoFailures == {GeoRaise, GeoBadJson, GeoHttp(500, <<>>)}

\* The answers the geocoder may give to a query: any failure, or, when it is
\* up, a 200 with what it knows of the name (nothing for an unknown name).
GeoAnswers(q, up) ==
    GeoFailures \cup
    (IF up THEN {GeoHttp(200, <<>>)} \cup {GeoHttp(200, rs) : rs \in GeoKnows(q)}
     ELSE {})

\* (it.get('country_code') or '').upper() == 'VN'
IsVN(it) == it.country_code \in {"VN", "vn", "Vn", "vN"}

\* next((it for it in results if ... == 'VN'), None): the index of the first
\* result tagged VN, 0 for None.
FirstVN(results) ==
    IF \E i \in 1..Len(results) : IsVN(results[i])
    THEN CHOOSE i \in 1..Len(results) :
            IsVN(results[i]) /\ \A j \in 1..(i - 1) : ~IsVN(results[j])
    ELSE 0

(***************************************************************************)
(* Bounds of the model.                                                    *)
(***************************************************************************)

\* Messages recorded over all sessions in the memory-store specification.
MaxRecorded == 12

\* save_context calls that lack one of the two keys, per behaviour.
MaxPartial == 1

Sessions == {"s1", "s2"}

\* Texts recorded in the memory-store specification.
T_hi == <<"h", "i">>
T_ok == <<"o", "k">>

\* The shapes of a save_context call: both keys (the router's record of a
\* user turn with an empty reply, a handler's record of a reply), and a dict
\* that lacks 'output' or 'input'.
MemFullCalls ==
    { <<[input |-> T_hi], [output |-> <<>>]>>,
      <<[input |-> T_ok], [output |-> <<>>]>>,
      <<[input |-> T_hi], [output |-> T_ok]>> }
MemPartialCalls ==
    { <<[input |-> T_ok], EmptyDict>>,
      <<EmptyDict, [output |-> T_hi]>> }

(***************************************************************************)
(* State.                                                                  *)
(***************************************************************************)
VARIABLES
    memory_store,   \* _memory_store: context_id -> FallbackMemory
    recorded,       \* ledger: session -> every message recorded for it, in order
    partial_calls,  \* ledger: save_context calls made with a key missing
    gemini_model,   \* _gemini_model: "None" or "model"
    credentials,    \* environment: the LLM client can be configured (API key
                    \* present, google.generativeai importable)
    last_intent,    \* IntentRouterAgentExecutor.last_intent
    req,            \* the calls in progress: each one's position and locals
    CLASS_LOCATIONS_CACHE,  \* WeatherAgentExecutor.CLASS_LOCATIONS_CACHE
    CLASS_CACHE_TIMESTAMP,  \* WeatherAgentExecutor.CLASS_CACHE_TIMESTAMP
    inst,           \* the WeatherAgentExecutor instances and their mirrors
    fetch,          \* the runs of _fetch_vietnam_provinces
    published,      \* ledger: per query, what the run that filled the shared
                    \* cache last had accepted from the geocoder
    now,            \* the event loop's clock, in seconds
    geo_up,         \* environment: the remote geocoder answers
    geo_fixed       \* environment: the answer the remote geocoder gives to
                    \* each query of the population (and, in a scenario,
                    \* the answer of the weather service), where these
                    \* give the same answers every time; <<>> where not
VARIABLES
    conversations,  \* the rows of table conversations of the relational store
    redis,          \* the keys of the key-value cache and their values
    svc             \* the calls of ConversationService in progress

memVars == <<memory_store, recorded, partial_calls>>
llmVars == <<gemini_model, credentials>>
callVars == <<last_intent, req>>
cacheVars == <<CLASS_LOCATIONS_CACHE, CLASS_CACHE_TIMESTAMP, inst, fetch,
               published, now, geo_up, geo_fixed>>
storeVars == <<conversations, redis, svc>>
vars == <<memory_store, recorded, partial_calls, gemini_model, credentials,
          last_intent, req, CLASS_LOCATIONS_CACHE, CLASS_CACHE_TIMESTAMP,
          inst, fetch, published, now, geo_up, geo_fixed,
          conversations, redis, svc>>

TotalRecorded == Len(recorded["s1"]) + Len(recorded["s2"])

\* Calls (requests) a behaviour holds at most.
MaxReq == 2
Reqs == 1..MaxReq

\* A call that has not been made yet.
IdleReq ==
    [ entry |-> "none",        \* the function called: "execute", "classify"
      pc |-> "idle",           \* where the call is suspended
      context_id |-> "",       \* context.context_id
      text |-> <<>>,           \* context.get_user_input()
      intent |-> "None",       \* the value _classify_intent returned
      llm_classify |-> 0,      \* LLM calls made by _classify_intent
      cls_out |-> [kind |-> "nocall", text |-> <<>>],
                               \* what the classification LLM call gave
      cls_saw |-> "norender",  \* did the history the classifier rendered
                               \* hold the line of the current message:
                               \* "yes", "no", or "norender"
      raised |-> FALSE,        \* the call ended by raising to its caller
      inst |-> 0,              \* the WeatherAgentExecutor the call runs on
      location |-> <<>>,       \* _geocode's argument
      normalized |-> <<>>,     \* normalized_location
      norm_out |-> [kind |-> "nocall", text |-> <<>>],
                               \* ledger: what the LLM gave to a call of
                               \* _normalize_location_with_llm made on its own
      qi |-> 0,                \* index of the remote query awaited
      answers |-> <<>>,        \* ledger: the remote queries sent, each with
                               \* its answer
      seen |-> <<>>,           \* vietnam_locations, the table the call read
      seen_src |-> "none",     \* where it came from: "class", "instance",
                               \* "fetch"
      cache_at_read |-> "none",\* ledger: the shared cache when the call
                               \* asked for the table: "empty", "expired",
                               \* "fresh"
      down_at_read |-> FALSE,  \* ledger: the geocoder was down by then
      task_at_read |-> FALSE,  \* ledger: a background population task had
                               \* been started and had not published by then
      ret |-> [kind |-> "pending", lat |-> 0, lon |-> 0, name |-> <<>>],
                               \* what _geocode returned
      trace |-> <<>>,          \* ledger: the stages the request went through
      classify_calls |-> 0,    \* ledger: calls of _classify_intent
      handlers |-> <<>>,       \* ledger: the handlers execute() invoked
      events |-> <<>>,         \* the replies enqueued on the event queue
      rec_pos |-> 0,           \* ledger: position of the user turn among the
                               \* messages recorded for the session
      chat_saw |-> "norender", \* as cls_saw, for the chat handler's render
      later_at_render |-> 0,   \* ledger: messages recorded after the user
                               \* turn when the chat handler rendered
      chat_out |-> [kind |-> "nocall", text |-> <<>>],
                               \* ledger: what the chat LLM call gave
      reply_text |-> <<>>,     \* the text of the reply of the chat handler
                               \* or of the weather report
      wx_calls |-> 0,          \* ledger: GETs sent to the weather service
      cancels |-> <<>>,        \* ledger: the calls of cancel() for the
                               \* request, each with whether the event queue
                               \* took the event of either handler
      cancel_events |-> <<>>,  \* the events cancel() enqueued
      wx_answers |-> <<>>,     \* ledger: what the weather service answered
      logs |-> <<>>,           \* ledger: the calls of log_agent_response
                               \* made for the request, each with its
                               \* caller, arguments and outcome
      result |-> [response |-> "none", skill_used |-> "none"],
                               \* what the wrapper or the endpoint holds as
                               \* the agent's answer
      http |-> [status |-> 0, success |-> FALSE, response |-> "none",
                skill_used |-> "none"] ]
                               \* the answer of the chat endpoint

InitMemVars ==
    /\ memory_store = EmptyDict
    /\ recorded = [s \in Sessions |-> <<>>]
    /\ partial_calls = 0

\* WeatherAgentExecutor instances a behaviour holds at most.
Insts == {1, 2}

\* An instance that has not been constructed yet; after __init__:
\* _vietnam_locations_cache = None, _cache_timestamp = 0.
NoInst == [created |-> FALSE, cache_set |-> FALSE, cache |-> <<>>, ts |-> 0]

\* The runs of _fetch_vietnam_provinces: the background task of an
\* instance, or the run a call awaits in line.
FetchIds == {<<"task", i>> : i \in Insts} \cup {<<"call", r>> : r \in Reqs}

\* A run that has not started.  i is the index of the query of the loop;
\* locations is the run's private table; got is the ledger of what the run
\* accepted per query (an item, or a failure).
NoFetch == [pc |-> "idle", inst |-> 0, i |-> 0, locations |-> <<>>, got |-> <<>>]

InitCacheVars ==
    /\ CLASS_LOCATIONS_CACHE = <<>>
    /\ CLASS_CACHE_TIMESTAMP = 0
    /\ inst = [i \in Insts |-> NoInst]
    /\ fetch = [f \in FetchIds |-> NoFetch]
    /\ published = [mode |-> "none", locations |-> <<>>, got |-> <<>>]
    /\ now = 0
    /\ geo_up = TRUE
    /\ geo_fixed = <<>>

(***************************************************************************)
(* The conversation store: table conversations of the relational store,    *)
(* the keys of the key-value cache, and the calls of ConversationService.  *)
(***************************************************************************)
\* Calls of ConversationService a behaviour holds at most.
MaxSvcCalls == 3
SvcCalls == 1..MaxSvcCalls

\* str(uuid.uuid4()) (line 39): an identifier no other call draws, here the
\* number of the call that draws it.  0 stands for None.
ConversationIds == SvcCalls

\* The value under session_summary:{session_id}, where there is one: the
\* fields the two writers set.  last_conversation_id = 0: the field is None
\* or, in a summary computed from the table (lines 190-197), absent.
NoSummary == [present |-> FALSE, total_conversations |-> 0, last_conversation_id |-> 0]
Summary(total, last) ==
    [present |-> TRUE, total_conversations |-> total, last_conversation_id |-> last]

\* No key in the key-value cache.  conversation and conversation_detail
\* hold the identifiers that have a key conversation:{session}:{id} and
\* conversation_detail:{id}.  The expiry of the keys (1 h and 24 h) is
\* beyond the time of a behaviour.
RedisEmpty ==
    [ session_summary |-> [s \in Sessions |-> NoSummary],
      conversation |-> {},
      conversation_detail |-> {} ]

\* A call that has not been made.  op is the method called, pc the await
\* at which it is suspended; conversation_id is the identifier the call
\* drew (log_conversation) or was given (get_conversation_by_id); summary
\* is the local of that name; flag and the three ret_ fields hold what the
\* call returned.  Ledger: inserted (the call's INSERT was applied), had
\* (the conversations of the session when the call's DELETE was applied,
\* or when the call returned without it), applied (the DELETE was applied).
IdleSvc ==
    [ op |-> "none", pc |-> "idle", session_id |-> "", conversation_id |-> 0,
      summary |-> NoSummary, flag |-> "pending", ret_rows |-> {},
      ret_summary |-> NoSummary, ret_none |-> FALSE,
      inserted |-> FALSE, had |-> {}, applied |-> FALSE ]

InitStoreVars ==
    /\ conversations = <<>>
    /\ redis = RedisEmpty
    /\ svc = [c \in SvcCalls |-> IdleSvc]

InitMem ==
    /\ InitMemVars
    /\ InitStoreVars
    /\ InitCacheVars
    /\ gemini_model = "None"
    /\ credentials = TRUE
    /\ last_intent = "None"
    /\ req = [r \in Reqs |-> IdleReq]

\* record(session, user_text, assistant_text):
\* get_or_create_memory(s).save_context(inputs, outputs)
Record(store, s, inputs, outputs) ==
    LET st == get_or_create_memory(store, s)
    IN [st EXCEPT ![s] = save_context(st[s], inputs, outputs)]

MemRecord(s, inputs, outputs) ==
    /\ TotalRecorded + Len(Recorded(inputs, outputs)) <= MaxRecorded
    /\ memory_store' = Record(memory_store, s, inputs, outputs)
    /\ recorded' = [recorded EXCEPT ![s] = @ \o Recorded(inputs, outputs)]
    /\ UNCHANGED <<llmVars, callVars, cacheVars, storeVars>>

\* get_or_create_memory(s) on its own (a lookup of the session's window).
MemGet(s) ==
    /\ memory_store' = get_or_create_memory(memory_store, s)
    /\ UNCHANGED <<recorded, partial_calls, llmVars, callVars, cacheVars, storeVars>>

NextMem ==
    \/ \E s \in Sessions, c \in MemFullCalls :
          MemRecord(s, c[1], c[2]) /\ UNCHANGED partial_calls
    \/ \E s \in Sessions, c \in MemPartialCalls :
          /\ partial_calls < MaxPartial
          /\ MemRecord(s, c[1], c[2])
          /\ partial_calls' = partial_calls + 1
    \/ \E s \in Sessions : MemGet(s)

SpecMem == InitMem /\ [][NextMem]_vars

(***************************************************************************)
(* The state as one value, so that a handler can be written as the         *)
(* composition of the steps it runs between two suspension points.  A step *)
(* is an operator from state to state; an action commits the state its     *)
(* steps produce.  The code runs on one event loop: a handler runs without *)
(* interruption up to its next await of a remote call.                     *)
(***************************************************************************)
State ==
    [ memory_store |-> memory_store, recorded |-> recorded,
      gemini_model |-> gemini_model, last_intent |-> last_intent,
      req |-> req,
      CLASS_LOCATIONS_CACHE |-> CLASS_LOCATIONS_CACHE,
      CLASS_CACHE_TIMESTAMP |-> CLASS_CACHE_TIMESTAMP,
      inst |-> inst, fetch |-> fetch, published |-> published,
      now |-> now, geo_up |-> geo_up ]

Commit(S) ==
    /\ memory_store' = S.memory_store
    /\ recorded' = S.recorded
    /\ gemini_model' = S.gemini_model
    /\ last_intent' = S.last_intent
    /\ req' = S.req
    /\ CLASS_LOCATIONS_CACHE' = S.CLASS_LOCATIONS_CACHE
    /\ CLASS_CACHE_TIMESTAMP' = S.CLASS_CACHE_TIMESTAMP
    /\ inst' = S.inst
    /\ fetch' = S.fetch
    /\ published' = S.published
    /\ UNCHANGED <<partial_calls, credentials, now, geo_up, geo_fixed, storeVars>>

\* The request's fields changed to those of the record `changes`.
SetReq(S, r, changes) ==
    [S EXCEPT !.req[r] =
        [f \in DOMAIN @ |-> IF f \in DOMAIN changes THEN changes[f] ELSE @[f]]]

(***************************************************************************)
(* Intent classifier: IntentRouterAgentExecutor._classify_intent.          *)
(***************************************************************************)

\* What a call of the LLM client gives: an exception (network error,
\* timeout), no response object or a response without text, or a text.
LLMRaise == [kind |-> "raise", text |-> <<>>]
LLMNone == [kind |-> "none", text |-> <<>>]
LLMText(t) == [kind |-> "text", text |-> t]
\* No call was made.
NoCall == [kind |-> "nocall", text |-> <<>>]

\* response_text after the call: the text, or None (rendered as the empty
\* text: both are falsy, which is all the code asks of it).
ResponseText(out) == IF out.kind = "text" THEN out.text ELSE <<>>

KW_weather == <<"w", "e", "a", "t", "h", "e", "r">>
A_chat == <<"c", "h", "a", "t">>
A_Weather == <<"W", "e", "a", "t", "h", "e", "r", "\n">>
A_not_weather == <<"n", "o", "t", " ", "w", "e", "a", "t", "h", "e", "r", ".">>
A_weath == <<" ", "w", "e", "a", "t", "h", " ", "e", "r">>
A_blank == << " " >>

\* Answers of the LLM to the classification prompt.
ClassifyOutcomes ==
    { LLMRaise, LLMNone, LLMText(<<>>), LLMText(A_blank), LLMText(KW_weather),
      LLMText(A_Weather), LLMText(A_not_weather), LLMText(A_chat),
      LLMText(A_weath) }

\* The label read from the answer with the test turned round (a slip that
\* would accept every answer but the label).
classify_answer_inverted(out) ==
    LET response_text == ResponseText(out)
    IN IF response_text # <<>> /\ ~Contains(Lower(Strip(response_text)), KW_weather)
       THEN "weather" ELSE "chat"

\* The label read from the LLM's answer (lines 795-804).
classify_answer(out) ==
    LET response_text == ResponseText(out)
    IN IF response_text # <<>> /\ Contains(Lower(Strip(response_text)), KW_weather)
       THEN "weather" ELSE "chat"

\* The guard variant that forgets strip(): only the empty text short-circuits.
is_blank_no_strip(text) == text = <<>>

\* `not text.strip()`
is_blank(text) == Strip(text) = <<>>

\* The current message as the line the rendered history shows for it.
OwnLine(text) == HistoryLine([role |-> "user", content |-> text])

\* _classify_intent from its entry to its first suspension (lines 730-787):
\* "chat" at once for a blank text or without credentials; otherwise the
\* model is configured if need be, the history is rendered and the LLM is
\* called.  Returns the state with the call at "classify_llm", or with
\* intent set and the call at "classified".
classify_intent_enter(S, r, cred) ==
    LET text == S.req[r].text
        cid == S.req[r].context_id
    IN IF is_blank(text) THEN
           SetReq(S, r, [pc |-> "classified", intent |-> "chat"])
       ELSE IF S.gemini_model = "None" /\ ~cred THEN
           SetReq(S, r, [pc |-> "classified", intent |-> "chat"])
       ELSE
           LET S1 == [S EXCEPT !.gemini_model = "model",
                               !.memory_store = get_or_create_memory(@, cid)]
               history_text == load_memory_variables(S1.memory_store[cid])
           IN SetReq(S1, r,
                  [pc |-> "classify_llm",
                   llm_classify |-> S.req[r].llm_classify + 1,
                   cls_saw |-> IF Contains(history_text, OwnLine(text))
                               THEN "yes" ELSE "no"])

\* _classify_intent from the LLM's answer to its return.
classify_intent_resume(S, r, out) ==
    SetReq(S, r, [pc |-> "classified", intent |-> classify_answer(out),
                  cls_out |-> out])

\* A direct call of _classify_intent returns to its caller.
classify_return(S, r) == SetReq(S, r, [pc |-> "done"])

(***************************************************************************)
(* Population of the location cache: _fetch_vietnam_provinces.             *)
(***************************************************************************)
NoItem == Item(<<>>, "", 0, 0, FALSE)

\* What one pass of the loop accepts from the answer to its query (lines
\* 350-361): the first result tagged VN, if the status is 200 and its
\* coordinates parse.
fetch_accept(ans) ==
    IF /\ ans.kind = "http" /\ ans.status = 200
       /\ FirstVN(ans.results) # 0
       /\ ans.results[FirstVN(ans.results)].coords_ok
    THEN [ok |-> TRUE, item |-> ans.results[FirstVN(ans.results)]]
    ELSE [ok |-> FALSE, item |-> NoItem]

\* The pass leaves the loop body by `continue`, without the sleep: the call
\* raised, the body was not JSON, or float() rejected the coordinates.
fetch_skips_sleep(ans) ==
    \/ ans.kind \in {"raise", "badjson"}
    \/ /\ ans.kind = "http" /\ ans.status = 200
       /\ FirstVN(ans.results) # 0
       /\ ~ans.results[FirstVN(ans.results)].coords_ok

\* vn_result.get('name') or query
fetch_name(item, query) == IF item.name # <<>> THEN item.name ELSE query

\* keys (lines 364-369)
fetch_keys(name, query) ==
    << Lower(name), Lower(_strip_diacritics(name)),
       Lower(query), Lower(_strip_diacritics(query)) >>

\* for key in keys: if key and key not in locations: locations[key] = value
RECURSIVE fetch_add_keys(_, _, _)
fetch_add_keys(locations, keys, value) ==
    IF keys = <<>> THEN locations
    ELSE fetch_add_keys(
            IF Head(keys) # <<>> /\ ~DictHas(locations, Head(keys))
            THEN Append(locations, <<Head(keys), value>>)
            ELSE locations,
            Tail(keys), value)

\* locations after the pass for `query` got `ans`.
fetch_pass(locations, query, ans) ==
    LET acc == fetch_accept(ans)
        name == fetch_name(acc.item, query)
    IN IF acc.ok
       THEN fetch_add_keys(locations, fetch_keys(name, query),
                           <<acc.item.latitude, acc.item.longitude, name>>)
       ELSE locations

\* The merge written the wrong way round in one respect: the static table is
\* left out of what is published.
fetch_all_locations_unmerged(locations) == locations

\* all_locations = {**self.MAJOR_CITIES_FALLBACK, **locations}
fetch_all_locations(locations) == DictMerge(MAJOR_CITIES_FALLBACK, locations)

\* Lines 391-396: the shared cache and the instance's mirror are replaced by
\* `table`, stamped with the loop's clock.
fetch_store(S, i, table, mode, locations, got) ==
    [S EXCEPT !.CLASS_LOCATIONS_CACHE = table,
              !.CLASS_CACHE_TIMESTAMP = S.now,
              !.inst[i] = [@ EXCEPT !.cache_set = TRUE, !.cache = table, !.ts = S.now],
              !.published = [mode |-> mode, locations |-> locations, got |-> got]]

\* The loop is over: lines 388-399 up to the return, which leaves the
\* `async with` (the client is closed before the caller resumes).
fetch_publish(S, f) ==
    LET F == S.fetch[f]
        S1 == fetch_store(S, F.inst, fetch_all_locations(F.locations),
                          "merged", F.locations, F.got)
    IN [S1 EXCEPT !.fetch[f].pc = "closing"]

\* The outer except (lines 401-409): the static table is stored.
fetch_fallback(S, f) ==
    LET S1 == fetch_store(S, S.fetch[f].inst, MAJOR_CITIES_FALLBACK,
                          "fallback", <<>>, S.fetch[f].got)
    IN [S1 EXCEPT !.fetch[f] = [NoFetch EXCEPT !.pc = "done"]]

\* The head of the loop: the next query is sent, or the loop is over.
fetch_next(S, f) ==
    IF S.fetch[f].i < Len(vietnam_queries)
    THEN [S EXCEPT !.fetch[f].i = @ + 1, !.fetch[f].pc = "get"]
    ELSE fetch_publish(S, f)

\* A pass that also writes what it has so far into the shared cache (the
\* in-place mutation the design rules out).
fetch_answer_in_place(S, f, ans) ==
    LET F == S.fetch[f]
        q == vietnam_queries[F.i]
        S1 == [S EXCEPT !.fetch[f].locations = fetch_pass(F.locations, q, ans),
                        !.fetch[f].got = Append(@, fetch_accept(ans)),
                        !.CLASS_LOCATIONS_CACHE =
                            DictMerge(@, fetch_pass(F.locations, q, ans))]
    IN IF fetch_skips_sleep(ans) THEN fetch_next(S1, f)
       ELSE [S1 EXCEPT !.fetch[f].pc = "sleep"]

\* The answer to the query of the pass arrives (lines 350-386).
fetch_answer(S, f, ans) ==
    LET F == S.fetch[f]
        q == vietnam_queries[F.i]
        S1 == [S EXCEPT !.fetch[f].locations = fetch_pass(F.locations, q, ans),
                        !.fetch[f].got = Append(@, fetch_accept(ans))]
    IN IF fetch_skips_sleep(ans) THEN fetch_next(S1, f)
       ELSE [S1 EXCEPT !.fetch[f].pc = "sleep"]

\* _fetch_vietnam_provinces starts on instance i: the client is built and
\* the first query sent; a client that cannot be built takes the outer
\* except.
fetch_begin(S, f, i, client_ok) ==
    LET S1 == [S EXCEPT !.fetch[f] =
                  [pc |-> "get", inst |-> i, i |-> 1, locations |-> <<>>, got |-> <<>>]]
    IN IF client_ok THEN S1 ELSE fetch_fallback(S1, f)

\* The client is closed on leaving the `async with`; a close that raises
\* takes the outer except.
fetch_close(S, f, ok) ==
    IF ok THEN [S EXCEPT !.fetch[f] = [NoFetch EXCEPT !.pc = "done"]]
    ELSE fetch_fallback(S, f)

\* The return of the run's private table in place of the merged one.
fetch_returned_private(S, f, ok) == S.fetch[f].locations

\* What the run returned to the caller that awaited it.
fetch_returned(S, f, ok) ==
    IF ok THEN fetch_all_locations(S.fetch[f].locations) ELSE MAJOR_CITIES_FALLBACK

\* WeatherAgentExecutor.__init__ (lines 252-298) and _start_initialization:
\* the background task is created only if the shared cache is empty.
weather_init(S, i) ==
    LET S1 == [S EXCEPT !.inst[i] = [NoInst EXCEPT !.created = TRUE]]
    IN IF S.CLASS_LOCATIONS_CACHE = <<>>
       THEN [S1 EXCEPT !.fetch[<<"task", i>>] = [NoFetch EXCEPT !.pc = "start", !.inst = i]]
       ELSE S1

\* preload_locations (lines 431-435): tmp = cls(), whose __init__ starts
\* the background task if the shared cache is empty, then a run of
\* _fetch_vietnam_provinces on tmp that the caller awaits.
preload_locations(S, r, i, client_ok) ==
    LET S0 == SetReq(weather_init(S, i), r, [entry |-> "preload", inst |-> i])
        S1 == fetch_begin(S0, <<"call", r>>, i, client_ok)
    IN IF client_ok
       THEN SetReq(S1, r, [pc |-> "fetching"])
       ELSE SetReq(S1, r, [pc |-> "have_table", seen |-> MAJOR_CITIES_FALLBACK,
                           seen_src |-> "fetch"])

(***************************************************************************)
(* Location resolver: _normalize_location_with_llm, _get_vietnam_locations *)
(* and _geocode.                                                           *)
(***************************************************************************)
RetPending == [kind |-> "pending", lat |-> 0, lon |-> 0, name |-> <<>>]
RetNone == [kind |-> "none", lat |-> 0, lon |-> 0, name |-> <<>>]
RetCoords(v) == [kind |-> "coords", lat |-> v[1], lon |-> v[2], name |-> v[3]]

\* _normalize_location_with_llm returns without a call of the LLM: the
\* location is blank, or no model is configured.
normalize_no_call(S, location) == is_blank(location) \/ S.gemini_model = "None"

\* The value returned without the test of the answer's text: whatever the
\* answer holds is stripped and returned.
normalize_answer_unchecked(location, out) ==
    IF out.kind = "raise" THEN location
    ELSE StripChar(StripChar(Strip(ResponseText(out)), "\""), "'")

\* The value _normalize_location_with_llm returns once the LLM was called
\* (lines 505-530).
normalize_answer(location, out) ==
    IF out.kind = "raise" THEN location
    ELSE IF ResponseText(out) # <<>>
         THEN StripChar(StripChar(Strip(ResponseText(out)), "\""), "'")
         ELSE location

\* _geocode from its entry to the first suspension of the normalization.
geocode_enter(S, r) ==
    IF normalize_no_call(S, S.req[r].location)
    THEN SetReq(S, r, [pc |-> "normalized", normalized |-> S.req[r].location])
    ELSE SetReq(S, r, [pc |-> "normalize_llm"])

\* The LLM answers the normalization prompt.
geocode_normalized(S, r, out) ==
    SetReq(S, r, [pc |-> "normalized",
                  normalized |-> normalize_answer(S.req[r].location, out)])

\* The test of freshness with the bound included: a table whose age equals
\* the lifetime still counts as fresh.
CacheFresh_inclusive(S) ==
    /\ S.CLASS_LOCATIONS_CACHE # <<>>
    /\ S.now - S.CLASS_CACHE_TIMESTAMP <= CLASS_CACHE_DURATION

\* The test of line 416-417: the shared cache has entries and is younger
\* than CLASS_CACHE_DURATION.
CacheFresh(S) ==
    /\ S.CLASS_LOCATIONS_CACHE # <<>>
    /\ S.now - S.CLASS_CACHE_TIMESTAMP < CLASS_CACHE_DURATION

MirrorFresh(S, i) ==
    /\ S.inst[i].cache_set
    /\ S.now - S.inst[i].ts < CLASS_CACHE_DURATION

\* _get_vietnam_locations (lines 411-429): the shared cache if it is fresh,
\* else the instance's mirror if it is fresh, else a run of
\* _fetch_vietnam_provinces that the call awaits.
get_vietnam_locations(S, r, client_ok) ==
    LET i == S.req[r].inst
        S0 == SetReq(S, r,
                 [cache_at_read |-> IF S.CLASS_LOCATIONS_CACHE = <<>> THEN "empty"
                                    ELSE IF CacheFresh(S) THEN "fresh" ELSE "expired",
                  down_at_read |-> ~S.geo_up,
                  task_at_read |-> \E j \in Insts :
                      S.fetch[<<"task", j>>].pc \in {"start", "get", "sleep"}])
    IN IF CacheFresh(S) THEN
           SetReq(S0, r, [pc |-> "have_table", seen |-> S.CLASS_LOCATIONS_CACHE,
                          seen_src |-> "class"])
       ELSE IF MirrorFresh(S, i) THEN
           SetReq(S0, r, [pc |-> "have_table", seen |-> S.inst[i].cache,
                          seen_src |-> "instance"])
       ELSE
           LET S1 == fetch_begin(S0, <<"call", r>>, i, client_ok)
           IN IF client_ok
              THEN SetReq(S1, r, [pc |-> "fetching"])
              ELSE SetReq(S1, r, [pc |-> "have_table", seen |-> MAJOR_CITIES_FALLBACK,
                                  seen_src |-> "fetch"])

\* The run the call awaited has returned `table`.
get_vietnam_locations_fetched(S, r, table) ==
    SetReq(S, r, [pc |-> "have_table", seen |-> table, seen_src |-> "fetch"])

\* The index of the first key of the table that contains the name or is
\* contained in it (the loop of lines 579-583), 0 if there is none.
fuzzy_match(table, location_lower) ==
    LET hit(i) == \/ Contains(table[i][1], location_lower)
                  \/ Contains(location_lower, table[i][1])
    IN IF \E i \in 1..Len(table) : hit(i)
       THEN CHOOSE i \in 1..Len(table) : hit(i) /\ \A j \in 1..(i - 1) : ~hit(j)
       ELSE 0

\* The queries in another order: the original before the normalized name.
geocode_queries_original_first(normalized, location) ==
    LET q1 == IF normalized # location THEN <<location, normalized>> ELSE <<normalized>>
        no_diac == _strip_diacritics(normalized)
    IN IF no_diac # <<>> /\ no_diac # normalized THEN Append(q1, no_diac) ELSE q1

\* queries (lines 586-592)
geocode_queries(normalized, location) ==
    LET q1 == <<normalized>>
        q2 == IF normalized # location THEN Append(q1, location) ELSE q1
        no_diac == _strip_diacritics(normalized)
    IN IF no_diac # <<>> /\ no_diac # normalized THEN Append(q2, no_diac) ELSE q2

\* The lookup that skips the exact match and the containment match for the
\* static names (a slip that would send every name to the remote geocoder).
geocode_lookup_remote_first(S, r) ==
    SetReq(S, r, [pc |-> "geocode_get", qi |-> 1])

\* _geocode with the table in hand (lines 567-605): the exact match, the
\* containment match, or the first remote query.
geocode_lookup(S, r) ==
    LET table == S.req[r].seen
        location_lower == Strip(Lower(S.req[r].normalized))
        m == fuzzy_match(table, location_lower)
    IN IF DictHas(table, location_lower) THEN
           SetReq(S, r, [pc |-> "geocoded",
                         ret |-> RetCoords(DictGet(table, location_lower))])
       ELSE IF m # 0 THEN
           SetReq(S, r, [pc |-> "geocoded", ret |-> RetCoords(table[m][2])])
       ELSE
           SetReq(S, r, [pc |-> "geocode_get", qi |-> 1])

\* The answer to remote query qi arrives (lines 605-636).
geocode_answer(S, r, ans) ==
    LET R == S.req[r]
        queries == geocode_queries(R.normalized, R.location)
        S1 == SetReq(S, r, [answers |-> Append(R.answers,
                                               [q |-> queries[R.qi], ans |-> ans])])
        next == IF R.qi < Len(queries)
                THEN SetReq(S1, r, [qi |-> R.qi + 1])
                ELSE SetReq(S1, r, [pc |-> "geocoded", ret |-> RetNone])
        vn == FirstVN(ans.results)
        item == IF vn # 0 THEN ans.results[vn] ELSE ans.results[1]
    IN IF ans.kind \in {"raise", "badjson"} THEN
           SetReq(S1, r, [pc |-> "geocode_raised"])
       ELSE IF ans.status # 200 THEN next
       ELSE IF ans.results = <<>> THEN next
       ELSE IF item.coords_ok THEN
           SetReq(S1, r, [pc |-> "geocoded",
                          ret |-> RetCoords(<<item.latitude, item.longitude,
                                    IF item.name # <<>> THEN item.name ELSE R.normalized>>)])
       ELSE next

(***************************************************************************)
(* Weather handler: _extract_location, _get_weather and execute.           *)
(***************************************************************************)
\* s.rfind(sub) + 1: the last position where sub begins in s, 0 if none.
RFind(s, sub) ==
    LET starts == {i \in 1..(Len(s) - Len(sub) + 1) :
                      SubSeq(s, i, i + Len(sub) - 1) = sub}
    IN IF starts = {} THEN 0
       ELSE CHOOSE i \in starts : \A j \in starts : j <= i

KW_thoi_tiet == <<"t", "h", "ờ", "i", " ", "t", "i", "ế", "t">>
KW_thoi_tiet_nd == <<"t", "h", "o", "i", " ", "t", "i", "e", "t">>
\* "dd" stands for the letter d with stroke (U+0111), one character
KW_nhiet_do == <<"n", "h", "i", "ệ", "t", " ", "dd", "ộ">>
KW_nhiet_do_nd == <<"n", "h", "i", "e", "t", " ", "d", "o">>
\* the keywords of _extract_location, in its order
WeatherKeywords ==
    <<KW_thoi_tiet, KW_thoi_tiet_nd, KW_weather, KW_nhiet_do, KW_nhiet_do_nd>>

\* the time words of _extract_location's second re.sub, in its order
TimeWords ==
    << <<"h", "ô", "m", " ", "n", "a", "y">>, <<"h", "o", "m", " ", "n", "a", "y">>,
       <<"h", "i", "ệ", "n", " ", "t", "ạ", "i">>, <<"h", "i", "e", "n", " ", "t", "a", "i">> >>

Punctuation == {".", ",", "!", "?", ";", ":"}

\* \w of the regular expressions, on the characters of the model
IsWordChar(c) == c \notin Whitespace \cup Punctuation \cup {"\"", "'"}

\* The text after the last occurrence of the first keyword the lowered text
\* contains; the whole text if it contains none (lines 455-460).
after_keyword(original) ==
    LET lowered == Lower(original)
        found == {j \in 1..Len(WeatherKeywords) : Contains(lowered, WeatherKeywords[j])}
    IN IF found = {} THEN original
       ELSE LET kw == WeatherKeywords[CHOOSE j \in found : \A h \in found : j <= h]
                idx == RFind(lowered, kw)
            IN SubSeq(original, idx + Len(kw), Len(original))

\* re.sub(r'[\.,!?;:]+', ' ', candidate)
RECURSIVE sub_punctuation(_)
sub_punctuation(s) ==
    IF s = <<>> THEN <<>>
    ELSE IF Head(s) \in Punctuation
         THEN IF Len(s) > 1 /\ s[2] \in Punctuation
              THEN sub_punctuation(Tail(s))
              ELSE <<" ">> \o sub_punctuation(Tail(s))
         ELSE <<Head(s)>> \o sub_punctuation(Tail(s))

\* The length of the time word that matches at position p of s, between
\* two word boundaries and whatever the case; 0 if none does.
time_word_at(s, p) ==
    LET fits(w) == /\ p + Len(w) - 1 <= Len(s)
                   /\ Lower(SubSeq(s, p, p + Len(w) - 1)) = w
                   /\ p = 1 \/ ~IsWordChar(s[p - 1])
                   /\ p + Len(w) - 1 = Len(s) \/ ~IsWordChar(s[p + Len(w)])
        found == {j \in 1..Len(TimeWords) : fits(TimeWords[j])}
    IN IF found = {} THEN 0
       ELSE Len(TimeWords[CHOOSE j \in found : \A h \in found : j <= h])

\* re.sub(r'\b(hôm nay|hom nay|hiện tại|hien tai)\b', '', candidate,
\*        flags=re.IGNORECASE), from position p on
RECURSIVE sub_time_words(_, _)
sub_time_words(s, p) ==
    IF p > Len(s) THEN <<>>
    ELSE IF time_word_at(s, p) > 0
         THEN sub_time_words(s, p + time_word_at(s, p))
         ELSE <<s[p]>> \o sub_time_words(s, p + 1)

\* _extract_location(text): the candidate, <<>> for None.
_extract_location(text) ==
    LET original == Strip(text)
    IN IF original = <<>> THEN <<>>
       ELSE Strip(sub_time_words(Strip(sub_punctuation(after_keyword(original))), 1))

\* The weather service (Open-Meteo forecast): the call raises, the body is
\* not JSON, or a status comes with a body that has a temperature or not.
\* temperature_2m is the number of the body, is_float tells whether JSON
\* wrote it with a fraction (28.0) or without (28); weather_code its code.
WxRaise ==
    [kind |-> "raise", status |-> 0, temp |-> FALSE, temperature_2m |-> 0,
     is_float |-> FALSE, weather_code |-> 0]
WxBadJson ==
    [kind |-> "badjson", status |-> 200, temp |-> FALSE, temperature_2m |-> 0,
     is_float |-> FALSE, weather_code |-> 0]
WxHttp(status, temp) ==
    [kind |-> "http", status |-> status, temp |-> temp, temperature_2m |-> 0,
     is_float |-> FALSE, weather_code |-> 0]
WxCurrent(temperature_2m, is_float, weather_code) ==
    [kind |-> "http", status |-> 200, temp |-> TRUE,
     temperature_2m |-> temperature_2m, is_float |-> is_float,
     weather_code |-> weather_code]

\* str() of a natural number, digit by digit.
RECURSIVE DecimalText(_)
DecimalText(n) ==
    LET digit == <<"0", "1", "2", "3", "4", "5", "6", "7", "8", "9">>[(n % 10) + 1]
    IN IF n < 10 THEN <<digit>> ELSE Append(DecimalText(n \div 10), digit)

\* The temperature written as a float whatever the body held.
temp_text_as_float(wx) == DecimalText(wx.temperature_2m) \o <<".", "0">>

\* {temp} in the f-string of _get_weather: str() of the int or of the float
\* that r.json() made of the number.
temp_text(wx) ==
    DecimalText(wx.temperature_2m) \o (IF wx.is_float THEN <<".", "0">> ELSE <<>>)

\* codes.get(code, f'Mã thời tiết {code}') (lines 655-669), with the items
\* of codes for 0, 3 and 95.
weather_desc(code) ==
    CASE code = 0 -> <<"Trời quang">>
      [] code = 3 -> <<"Nhiều mây">>
      [] code = 95 -> <<"Dông">>
      [] OTHER -> <<"Mã thời tiết ">> \o DecimalText(code)

\* f'Nhiệt độ hiện tại: {temp}°C — {desc}.' (line 670), the fixed parts of
\* the format each as one piece of text; "dd" stands for the letter d with
\* stroke and "--" for the dash (U+2014).
weather_text(wx) ==
    <<"Nhiệt ddộ hiện tại: ">> \o temp_text(wx) \o <<"°C -- ">>
        \o weather_desc(wx.weather_code) \o <<".">>

\* f'Thời tiết tại {place}: {weather}' (line 690)
weather_reply(place, weather) == <<"Thời tiết tại ">> \o place \o <<": ">> \o weather
WeatherAnswers == {WxRaise, WxBadJson, WxHttp(500, FALSE), WxHttp(200, FALSE),
                   WxHttp(200, TRUE)}

\* An enqueue that skips the fallback reply of an empty answer of the LLM.
enqueue_event_unless_empty(S, r, reply) ==
    IF reply = "no_response" THEN S
    ELSE SetReq(S, r, [events |-> Append(S.req[r].events, reply)])

\* A reply is enqueued on the event queue.
enqueue_event(S, r, reply) ==
    SetReq(S, r, [events |-> Append(S.req[r].events, reply)])

\* execute that resolves whatever the extraction gave.
weather_execute_always_resolves(S, r) ==
    geocode_enter(SetReq(S, r, [location |-> _extract_location(S.req[r].text)]), r)

\* WeatherAgentExecutor.execute from its entry to its first suspension
\* (lines 672-681).
weather_execute(S, r) ==
    LET location_query == _extract_location(S.req[r].text)
    IN IF location_query = <<>>
       THEN SetReq(enqueue_event(S, r, "ask_location"), r, [pc |-> "replied"])
       ELSE geocode_enter(SetReq(S, r, [location |-> location_query]), r)

\* _geocode has returned to execute (lines 681-686).
weather_located(S, r) ==
    IF S.req[r].ret.kind = "none"
    THEN SetReq(enqueue_event(S, r, "location_not_found"), r, [pc |-> "replied"])
    ELSE SetReq(S, r, [pc |-> "weather_get", wx_calls |-> S.req[r].wx_calls + 1])

\* The answer of the weather service arrives: _get_weather returns or
\* raises, and execute replies (lines 645-703).
weather_answer(S, r, wx) ==
    LET S1 == SetReq(S, r, [wx_answers |-> Append(S.req[r].wx_answers, wx)])
    IN IF wx.kind \in {"raise", "badjson"} THEN
           SetReq(S1, r, [pc |-> "handler_raised"])
       ELSE IF wx.status # 200 \/ ~wx.temp THEN
           SetReq(enqueue_event(S1, r, "weather_unavailable"), r, [pc |-> "replied"])
       ELSE
           SetReq(enqueue_event(S1, r, "weather_report"), r,
                  [pc |-> "replied",
                   reply_text |-> weather_reply(S.req[r].ret.name, weather_text(wx))])

(***************************************************************************)
(* Chat handler: GeminiAgentExecutor.execute.                              *)
(***************************************************************************)
T_Hello == <<"H", "e", "l", "l", "o">>
\* The fixed replies, each as one piece of text.
T_call_failed == <<"Gemini call failed: e">>
T_no_response == <<"No response from Gemini.">>

\* user_text: the input, 'Hello' if there is none.
chat_user_text(text) == IF text = <<>> THEN T_Hello ELSE text

\* messages recorded for the session after the request's user turn
LaterRecorded(S, r) == Len(S.recorded[S.req[r].context_id]) - S.req[r].rec_pos

\* execute that goes on to the LLM call whether a model could be configured
\* or not.
chat_execute_unconfigured(S, r, cred) ==
    LET cid == S.req[r].context_id
    IN SetReq([S EXCEPT !.memory_store = get_or_create_memory(@, cid)], r,
              [pc |-> "chat_llm"])

\* execute from its entry to the call of the LLM (lines 116-178): without a
\* model and without credentials the configuration error is the reply.
chat_execute(S, r, cred) ==
    LET cid == S.req[r].context_id
        S1 == [S EXCEPT !.memory_store = get_or_create_memory(@, cid)]
    IN IF S.gemini_model = "None" /\ ~cred THEN
           SetReq(enqueue_event(S1, r, "configuration_error"), r, [pc |-> "replied"])
       ELSE
           LET history_text == load_memory_variables(S1.memory_store[cid])
           IN SetReq([S1 EXCEPT !.gemini_model = "model"], r,
                  [pc |-> "chat_llm",
                   chat_saw |-> IF Contains(history_text, OwnLine(S.req[r].text))
                                THEN "yes" ELSE "no",
                   later_at_render |-> LaterRecorded(S, r)])

\* response_text without the fallback for an answer that holds nothing.
chat_response_text_no_fallback(out) ==
    IF out.kind = "raise" THEN T_call_failed ELSE ResponseText(out)

\* response_text (lines 180-192)
chat_response_text(out) ==
    IF out.kind = "raise" THEN T_call_failed
    ELSE IF ResponseText(out) = <<>> THEN T_no_response
    ELSE ResponseText(out)

\* The LLM answers: the turn is recorded and the reply enqueued (lines
\* 180-205).
chat_answer(S, r, out) ==
    LET cid == S.req[r].context_id
        inputs == [input |-> chat_user_text(S.req[r].text)]
        outputs == [output |-> chat_response_text(out)]
        S1 == [S EXCEPT !.memory_store[cid] = save_context(@, inputs, outputs),
                        !.recorded[cid] = @ \o Recorded(inputs, outputs)]
    IN SetReq(enqueue_event(S1, r,
                 IF out.kind = "raise" THEN "call_failed"
                 ELSE IF ResponseText(out) = <<>> THEN "no_response"
                 ELSE "answer"),
              r, [pc |-> "replied", chat_out |-> out,
                  reply_text |-> outputs.output])

(***************************************************************************)
(* Router: IntentRouterAgentExecutor.execute.                              *)
(***************************************************************************)
\* execute that calls the classifier without recording the user turn first.
router_execute_unrecorded(S, r, cred) ==
    LET cid == S.req[r].context_id
        S2 == SetReq(S, r, [trace |-> <<"received">>,
                            rec_pos |-> Len(S.recorded[cid]) + 1,
                            classify_calls |-> S.req[r].classify_calls + 1])
    IN classify_intent_enter(S2, r, cred)

\* execute from its entry to the first suspension of the classifier (lines
\* 806-821): the user turn is recorded with an empty reply, then
\* _classify_intent is called.
router_execute(S, r, cred) ==
    LET cid == S.req[r].context_id
        inputs == [input |-> S.req[r].text]
        outputs == [output |-> <<>>]
        S1 == [S EXCEPT !.memory_store = Record(@, cid, inputs, outputs),
                        !.recorded[cid] = @ \o Recorded(inputs, outputs)]
        S2 == SetReq(S1, r, [trace |-> <<"received">>,
                             rec_pos |-> Len(S.recorded[cid]) + 1,
                             classify_calls |-> S.req[r].classify_calls + 1])
    IN classify_intent_enter(S2, r, cred)

\* The dispatch that runs the chat handler whatever the intent.
router_handler_always_chat(intent) == "chat"

\* if intent == "weather": weather.execute else: chat.execute
router_handler(intent) == IF intent = "weather" THEN "weather" ELSE "chat"

\* _classify_intent has returned (lines 821-829): last_intent is set and
\* the handler of the intent is invoked.
router_dispatch(S, r, cred) ==
    LET intent == S.req[r].intent
        h == router_handler(intent)
        S1 == SetReq([S EXCEPT !.last_intent = intent], r,
                     [trace |-> S.req[r].trace \o <<"intent_classified", "dispatched">>,
                      handlers |-> Append(S.req[r].handlers, h)])
    IN IF h = "weather" THEN weather_execute(S1, r) ELSE chat_execute(S1, r, cred)

\* The handler has returned: execute returns.
router_return(S, r) ==
    SetReq(S, r, [pc |-> IF S.req[r].entry \in {"endpoint", "wrapper"}
                         THEN "executed" ELSE "done",
                  trace |-> Append(S.req[r].trace, "completed")])

\* The handler has raised: execute has no except clause, the exception goes
\* to the caller.
router_raise(S, r) ==
    SetReq(S, r, [pc |-> IF S.req[r].entry \in {"endpoint", "wrapper"}
                         THEN "execute_raised" ELSE "done",
                  raised |-> TRUE])

(***************************************************************************)
(* Cancellation: IntentRouterAgentExecutor.cancel and the cancel of the    *)
(* two handlers.                                                           *)
(***************************************************************************)
\* TaskStatusUpdateEvent(status=TaskStatus(state=TaskState.canceled),
\* final=True) as handler `by` builds it (lines 221-234 and 705-717).
CanceledEvent(by) == [type |-> "status", state |-> "canceled", final |-> TRUE, by |-> by]

\* cancel of one handler: the event is enqueued, unless enqueue_event
\* raises; the router's cancel swallows that exception.
handler_cancel(S, r, by, queue_ok) ==
    IF queue_ok
    THEN SetReq(S, r, [cancel_events |-> Append(S.req[r].cancel_events,
                                                CanceledEvent(by))])
    ELSE S

\* IntentRouterAgentExecutor.cancel (lines 831-841): the weather handler's
\* cancel, then the chat handler's, each in a try of its own.
router_cancel(S, r, weather_ok, chat_ok) ==
    LET S1 == handler_cancel(S, r, "weather", weather_ok)
        S2 == handler_cancel(S1, r, "chat", chat_ok)
    IN SetReq(S2, r, [cancels |-> Append(S.req[r].cancels,
                                         [weather_ok |-> weather_ok,
                                          chat_ok |-> chat_ok])])

(***************************************************************************)
(* The chat endpoint: chat_with_agent, process_message_with_agent,         *)
(* AgentExecutorWrapper.execute and ConversationService.log_conversation.  *)
(***************************************************************************)
\* What the stores behind log_conversation do during one call: the insert
\* into PostgreSQL goes through or raises, the writes to Redis go through
\* or raise.
LogOutcomes == [db : BOOLEAN, redis : BOOLEAN]

\* log_conversation (lines 17-77): the failures of _cache_conversation and
\* _update_session_summary are caught inside them, every other exception
\* by the except clause that returns False.
log_conversation(out) == out.db

\* log_agent_response with its caller, its arguments and what came of it: a
\* record is stored when the insert went through.
log_agent_response(S, r, by, response, skill_used, out) ==
    SetReq(S, r, [logs |-> Append(S.req[r].logs,
                     [by |-> by, response |-> response, skill_used |-> skill_used,
                      stored |-> out.db, success |-> log_conversation(out)])])

\* agent_text (lines 118-119): the texts collected from the events, here
\* of the one message the handler enqueued, joined and stripped.
agent_text(reply_text) == Strip(reply_text)

\* The wrapper over an executor that exposes no last_intent.
wrapper_executed_unlabelled(S, r) ==
    SetReq(S, r,
          [pc |-> "wrapper_log",
           result |-> [response |-> IF S.req[r].events = <<>> THEN "no_content"
                                    ELSE S.req[r].events[1],
                       skill_used |-> "unknown"]])

\* The wrapper after the router's execute returned (lines 59-136): the
\* response is the text of the events collected, or the fixed text when
\* there is none; the skill is what last_intent of the router the wrapper
\* was built with holds once execute has returned (lines 126-137).
wrapper_executed(S, r) ==
    LET R == S.req[r]
    IN SetReq(S, r,
          [pc |-> "wrapper_log",
           result |-> [response |-> IF R.events = <<>> THEN "no_content"
                                    ELSE R.events[1],
                       skill_used |-> IF S.last_intent = "None" THEN "unknown"
                                      ELSE S.last_intent]])

\* The router's execute raised: the wrapper's except clause logs the error
\* (lines 173-189).
wrapper_raised(S, r) ==
    SetReq(S, r, [pc |-> "wrapper_log_error",
                  result |-> [response |-> "error_text", skill_used |-> "error"]])

\* The wrapper's call of log_agent_response is over.  After the success
\* path the wrapper returns the result to process_message_with_agent; after
\* the error path it raises again and the except clause of
\* process_message_with_agent makes the apology the response.  Then
\* chat_with_agent calls log_agent_response itself (chat_routes.py lines
\* 53-68).
wrapper_logged(S, r, out) ==
    LET R == S.req[r]
        S1 == log_agent_response(S, r, "wrapper", R.result.response,
                                  R.result.skill_used, out)
    IN IF R.entry = "wrapper"
       THEN SetReq(S1, r, [pc |-> "done", raised |-> R.pc # "wrapper_log"])
       ELSE IF R.pc = "wrapper_log"
       THEN SetReq(S1, r, [pc |-> "endpoint_log"])
       ELSE SetReq(S1, r, [pc |-> "endpoint_log",
                           result |-> [response |-> "apology",
                                       skill_used |-> "error"]])

\* The endpoint with a log_conversation that lets the exception of the
\* insert through: the except clause of chat_with_agent answers HTTP 500.
endpoint_logged_log_raises(S, r, out) ==
    LET R == S.req[r]
        S1 == log_agent_response(S, r, "endpoint", R.result.response,
                                  R.result.skill_used, out)
    IN SetReq(S1, r, [pc |-> "done",
                      http |-> IF out.db
                               THEN [status |-> 200, success |-> TRUE,
                                     response |-> R.result.response,
                                     skill_used |-> R.result.skill_used]
                               ELSE [status |-> 500, success |-> FALSE,
                                     response |-> "none", skill_used |-> "none"]])

\* The endpoint's call of log_agent_response is over: the ChatResponse is
\* returned (chat_routes.py lines 61-79).  Nothing in the try block of
\* chat_with_agent raises: process_message_with_agent and log_conversation
\* catch every exception, so its except clause is never entered.
endpoint_logged(S, r, out) ==
    LET R == S.req[r]
        S1 == log_agent_response(S, r, "endpoint", R.result.response,
                                  R.result.skill_used, out)
    IN SetReq(S1, r, [pc |-> "done",
                      http |-> [status |-> 200,
                                success |-> log_conversation(out),
                                response |-> R.result.response,
                                skill_used |-> R.result.skill_used]])

\* process_message_with_agent (chat_routes.py lines 104-125): a request
\* handler is built for the request, with a router of its own whose
\* WeatherAgentExecutor is instance i, and the wrapper runs the router's
\* execute.
process_message_with_agent(S, r, i, cid, text, cred, client_ok) ==
    LET S0 == SetReq([weather_init(S, i) EXCEPT !.last_intent = "None"], r,
                     [entry |-> "endpoint", context_id |-> cid, text |-> text,
                      inst |-> i])
    IN router_execute(S0, r, cred)

\* AgentExecutorWrapper.execute(session_id, user_message) (lines 19-59) on a
\* wrapper that lives as long as its request handler: the router's execute
\* is awaited with a context and a queue made for the call.
wrapper_execute(S, r, cid, text, cred) ==
    router_execute(SetReq(S, r, [entry |-> "wrapper", context_id |-> cid,
                                 text |-> text, inst |-> 1]),
                   r, cred)

(***************************************************************************)
(* The steps a call runs between two suspensions.                          *)
(***************************************************************************)
RECURSIVE Run(_, _, _, _)
\* The steps from state S on.
RunFrom(S, r, cred, client_ok) ==
    LET R == S.req[r]
        routed == R.entry \in {"execute", "endpoint", "wrapper"}
    IN CASE R.pc = "classified" /\ R.entry = "classify" ->
                SetReq(S, r, [pc |-> "done"])
         [] R.pc = "classified" /\ routed ->
                Run(router_dispatch(S, r, cred), r, cred, client_ok)
         [] R.pc = "geocoded" /\ routed ->
                Run(weather_located(S, r), r, cred, client_ok)
         [] R.pc = "geocode_raised" /\ routed ->
                Run(SetReq(S, r, [pc |-> "handler_raised"]), r, cred, client_ok)
         [] R.pc = "handler_raised" -> Run(router_raise(S, r), r, cred, client_ok)
         [] R.pc = "replied" -> Run(router_return(S, r), r, cred, client_ok)
         [] R.pc = "executed" -> wrapper_executed(S, r)
         [] R.pc = "execute_raised" -> wrapper_raised(S, r)
         [] R.pc = "normalized" /\ R.entry = "normalize" ->
                SetReq(S, r, [pc |-> "done"])
         [] R.pc = "normalized" /\ R.entry # "normalize" ->
                Run(get_vietnam_locations(S, r, client_ok), r, cred, client_ok)
         [] R.pc = "have_table" /\ R.entry \in {"locations", "preload"} ->
                SetReq(S, r, [pc |-> "done"])
         [] R.pc = "have_table" /\ R.entry \notin {"locations", "preload"} ->
                Run(geocode_lookup(S, r), r, cred, client_ok)
         [] R.pc = "geocoded" /\ R.entry = "geocode" ->
                SetReq(S, r, [pc |-> "done"])
         [] R.pc = "geocode_raised" /\ R.entry = "geocode" ->
                SetReq(S, r, [pc |-> "done", raised |-> TRUE])
         [] OTHER -> S

\* The state the call is in at its next suspension (or at its end), when it
\* goes on from state S.  S is bound as a value, so that it is computed once.
Run(S, r, cred, client_ok) ==
    CHOOSE T \in {RunFrom(S0, r, cred, client_ok) : S0 \in {S}} : TRUE

(***************************************************************************)
(* Specification of the classifier alone: calls of _classify_intent on     *)
(* sessions whose windows hold any recorded content.                       *)
(***************************************************************************)

\* Messages recorded in the classifier specification.
MaxClsRecorded == 2

TX_blank == << " ", "\n" >>
TX_wx == <<"W", "e", "a", "t", "h", "e", "r", " ", "h", "u", "e">>
ClassifyTexts == {<<>>, TX_blank, T_hi, TX_wx}

NextReq == CHOOSE r \in Reqs \cup {MaxReq + 1} :
              /\ r \in Reqs => req[r].pc = "idle"
              /\ \A q \in Reqs : q < r => req[q].pc # "idle"

InitClassify ==
    /\ InitMemVars
    /\ InitStoreVars
    /\ InitCacheVars
    /\ gemini_model \in {"None", "model"}
    /\ credentials \in BOOLEAN
    /\ gemini_model = "model" => credentials
    /\ last_intent = "None"
    /\ req = [r \in Reqs |-> IdleReq]

\* A window gets content (any earlier traffic of the session).
ClsRecord(s, c) ==
    /\ TotalRecorded < MaxClsRecorded
    /\ memory_store' = Record(memory_store, s, c[1], c[2])
    /\ recorded' = [recorded EXCEPT ![s] = @ \o Recorded(c[1], c[2])]
    /\ UNCHANGED <<partial_calls, llmVars, callVars, cacheVars, storeVars>>

\* _classify_intent(text, context_id) is called.
CallClassify(r, cid, text) ==
    /\ r = NextReq
    /\ LET S0 == SetReq(State, r, [entry |-> "classify", context_id |-> cid,
                                   text |-> text])
           S1 == classify_intent_enter(S0, r, credentials)
       IN Commit(IF S1.req[r].pc = "classified" THEN classify_return(S1, r) ELSE S1)

\* The LLM answers the classification prompt.
ClassifyAnswered(r, out) ==
    /\ req[r].pc = "classify_llm"
    /\ req[r].entry = "classify"
    /\ Commit(classify_return(classify_intent_resume(State, r, out), r))

NextClassify ==
    \/ \E s \in Sessions, c \in MemFullCalls : ClsRecord(s, c)
    \/ \E r \in Reqs, cid \in Sessions, text \in ClassifyTexts : CallClassify(r, cid, text)
    \/ \E r \in Reqs, out \in ClassifyOutcomes : ClassifyAnswered(r, out)

SpecClassify == InitClassify /\ [][NextClassify]_vars

(***************************************************************************)
(* Specification of the location cache and the resolver: instances of      *)
(* WeatherAgentExecutor are created (each starts the background population *)
(* if the shared cache is empty), _geocode is called on them, the clock    *)
(* advances and the remote geocoder fails or goes down.                    *)
(***************************************************************************)
\* The calls of _geocode that may be in progress at once.
GeocodeCalls == {1}

\* Advances of the clock per behaviour, each of half the cache's lifetime.
MaxTicks == 2
TickSeconds == CLASS_CACHE_DURATION \div 2

L_HANOI == <<" ", "H", "À", " ", "N", "Ộ", "I">>
L_camau == <<"c", "a", " ", "m", "a", "u">>
A_CaMau_quoted == <<" ", "\"", "C", "à", " ", "M", "a", "u", "\"", "\n">>
A_HaNoi_quoted == <<"'", "H", "à", " ", "N", "ộ", "i", "'", "\n">>
A_quotes == <<"\"", "\"">>
L_Hue_city == <<"H", "u", "ế", " ", "c", "i", "t", "y">>

\* Locations _geocode is called with.
ResolveTexts == {L_HANOI, L_camau, N_Paris, L_Hue_city, TX_blank}

\* Answers of the LLM to the normalization prompt: a failure, no text, the
\* location echoed, the canonical name in quotes, or only quotes.
NormalizeOutcomes(location) ==
    { LLMRaise, LLMNone, LLMText(location) } \cup
    (CASE location = L_HANOI -> { LLMText(A_HaNoi_quoted) }
       [] location = L_camau -> { LLMText(A_CaMau_quoted) }
       [] location = N_Paris -> { LLMText(A_quotes) }
       [] OTHER -> {})

InitResolve ==
    /\ InitMemVars
    /\ InitStoreVars
    /\ InitCacheVars
    /\ gemini_model \in {"None", "model"}
    /\ credentials = TRUE
    /\ last_intent = "None"
    /\ req = [r \in Reqs |-> IdleReq]

\* No finished call is waiting for its caller to take the result.  A
\* finished call has no further effect, so nothing is lost by letting its
\* caller take the result before anything else happens.
NoneReturning == \A r \in Reqs : req[r].pc # "done"

NextInst ==
    IF \A i \in Insts : inst[i].created THEN 0
    ELSE CHOOSE i \in Insts : /\ ~inst[i].created
                              /\ \A j \in Insts : j < i => inst[j].created

\* WeatherAgentExecutor()
NewInstance(i) ==
    /\ i = NextInst
    /\ NoneReturning
    /\ Commit(weather_init(State, i))

\* The background task starts to run _fetch_vietnam_provinces.
TaskBegin(f, client_ok) ==
    /\ fetch[f].pc = "start"
    /\ NoneReturning
    /\ Commit(fetch_begin(State, f, fetch[f].inst, client_ok))

\* The call that awaited the run resumes with what the run returned.
fetch_resume(S, f, table) ==
    IF f[1] = "call"
    THEN Run(get_vietnam_locations_fetched(S, f[2], table), f[2], credentials, TRUE)
    ELSE S

\* The geocoder answers the query of a pass of the population.
FetchAnswered(f, ans) ==
    /\ fetch[f].pc = "get"
    /\ NoneReturning
    /\ ans \in GeoAnswers(vietnam_queries[fetch[f].i], geo_up)
    /\ Commit(fetch_answer(State, f, ans))

\* asyncio.sleep(0.1) is over.
FetchWake(f) ==
    /\ fetch[f].pc = "sleep"
    /\ NoneReturning
    /\ Commit(fetch_next(State, f))

\* The client of the run is closed and the run returns.
FetchClosed(f, ok) ==
    /\ fetch[f].pc = "closing"
    /\ NoneReturning
    /\ Commit(fetch_resume(fetch_close(State, f, ok), f, fetch_returned(State, f, ok)))

\* _geocode(location) is called on instance i.
CallGeocode(r, i, location, client_ok) ==
    /\ r \in GeocodeCalls
    /\ req[r].pc = "idle"
    /\ NoneReturning
    /\ inst[i].created
    /\ LET S0 == SetReq(State, r, [entry |-> "geocode", inst |-> i,
                                   location |-> location])
       IN Commit(Run(geocode_enter(S0, r), r, credentials, client_ok))

\* The LLM answers the normalization prompt.
NormalizeAnswered(r, out, client_ok) ==
    /\ req[r].pc = "normalize_llm"
    /\ NoneReturning
    /\ Commit(Run(geocode_normalized(State, r, out), r, credentials, client_ok))

\* The geocoder answers remote query qi of _geocode.
GeocodeAnswered(r, ans) ==
    /\ req[r].pc = "geocode_get"
    /\ NoneReturning
    /\ ans \in GeoAnswers(geocode_queries(req[r].normalized, req[r].location)[req[r].qi],
                          geo_up)
    /\ Commit(Run(geocode_answer(State, r, ans), r, credentials, TRUE))

\* The caller takes the result of the call: the call's locals are gone.
CallReturned(r) ==
    /\ req[r].pc = "done"
    /\ Commit([State EXCEPT !.req[r] = IdleReq, !.fetch[<<"call", r>>] = NoFetch])

\* No run and no call is in progress.
Quiescent ==
    /\ \A f \in FetchIds : fetch[f].pc \in {"idle", "done"}
    /\ \A r \in Reqs : req[r].pc = "idle"

\* Time passes: half a cache lifetime.  Every remote call has a timeout of
\* seconds (httpx timeout=30 and timeout=10), so the clock makes such a step
\* only between the runs and calls, never in the middle of one.
Tick ==
    /\ now < MaxTicks * TickSeconds
    /\ Quiescent
    /\ now' = now + TickSeconds
    /\ UNCHANGED <<memVars, llmVars, callVars, CLASS_LOCATIONS_CACHE,
                   CLASS_CACHE_TIMESTAMP, inst, fetch, published, geo_up,
                   geo_fixed, storeVars>>

\* The remote geocoder becomes unreachable.
GeoDown ==
    /\ geo_up
    /\ NoneReturning
    /\ geo_up' = FALSE
    /\ UNCHANGED <<memVars, llmVars, callVars, CLASS_LOCATIONS_CACHE,
                   CLASS_CACHE_TIMESTAMP, inst, fetch, published, now,
                   geo_fixed, storeVars>>

\* _get_vietnam_locations() is called on instance i.
CallLocations(r, i, client_ok) ==
    /\ r \in GeocodeCalls
    /\ req[r].pc = "idle"
    /\ NoneReturning
    /\ inst[i].created
    /\ LET S0 == SetReq(State, r, [entry |-> "locations", inst |-> i,
                                   pc |-> "normalized"])
       IN Commit(Run(S0, r, credentials, client_ok))

\* The answers the geocoder gives in the specification of the cache.
CacheGeoAnswers ==
    GeoAnswers(<<>>, TRUE) \cup UNION {GeoAnswers(q, TRUE) : q \in {N_HaNoi, N_CaMau}}

NextCache ==
    \/ \E i \in Insts : NewInstance(i)
    \/ \E f \in FetchIds, client_ok \in BOOLEAN : TaskBegin(f, client_ok)
    \/ \E f \in FetchIds, ans \in CacheGeoAnswers : FetchAnswered(f, ans)
    \/ \E f \in FetchIds : FetchWake(f)
    \/ \E f \in FetchIds, ok \in BOOLEAN : FetchClosed(f, ok)
    \/ \E r \in Reqs, i \in Insts, client_ok \in BOOLEAN : CallLocations(r, i, client_ok)
    \/ \E r \in Reqs : CallReturned(r)
    \/ Tick

InitCache ==
    /\ InitMemVars
    /\ InitStoreVars
    /\ InitCacheVars
    /\ gemini_model = "None"
    /\ credentials = TRUE
    /\ last_intent = "None"
    /\ req = [r \in Reqs |-> IdleReq]

SpecCache == InitCache /\ [][NextCache]_vars

\* The instances of the specification of the resolver.
ResolveInsts == {1}

\* The answers the geocoder gives to the population in the specification of
\* the resolver: the call fails, or the name is found.
ResolveFetchAnswers == {GeoRaise, GeoHttp(200, <<It_HaNoi>>), GeoHttp(200, <<It_CaMau>>)}

\* The answers the geocoder gives to _geocode.
ResolveGeoAnswers ==
    GeoAnswers(<<>>, TRUE) \cup
    UNION {GeoAnswers(q, TRUE) : q \in {N_CaMau, N_CaMau_nd, N_Paris}}

NextResolve ==
    \/ \E i \in ResolveInsts : NewInstance(i)
    \/ \E f \in FetchIds, client_ok \in BOOLEAN : TaskBegin(f, client_ok)
    \/ \E f \in FetchIds, ans \in ResolveFetchAnswers : FetchAnswered(f, ans)
    \/ \E f \in FetchIds : FetchWake(f)
    \/ \E f \in FetchIds, ok \in BOOLEAN : FetchClosed(f, ok)
    \/ \E r \in Reqs, i \in ResolveInsts, location \in ResolveTexts, client_ok \in BOOLEAN :
          CallGeocode(r, i, location, client_ok)
    \/ \E r \in Reqs, client_ok \in BOOLEAN :
          \E out \in NormalizeOutcomes(req[r].location) :
             NormalizeAnswered(r, out, client_ok)
    \/ \E r \in Reqs, ans \in ResolveGeoAnswers : GeocodeAnswered(r, ans)
    \/ \E r \in Reqs : CallReturned(r)
    \/ Tick
    \/ GeoDown

SpecResolve == InitResolve /\ [][NextResolve]_vars

\* C5: classifying an empty or whitespace-only message returns "chat" and
\* makes no call to the remote model, whatever the session's window holds.
C5_BlankIsChatWithoutLLM ==
    \A r \in Reqs :
        (req[r].entry = "classify" /\ Strip(req[r].text) = <<>>) =>
            /\ req[r].pc = "done"
            /\ req[r].intent = "chat"
            /\ req[r].llm_classify = 0
            /\ req[r].cls_out = NoCall

\* C5 witness: a whitespace-only message was classified, on a session whose
\* window is not empty, with the model configured.
C5_Witness ==
    \E r \in Reqs :
        /\ req[r].entry = "classify" /\ req[r].pc = "done"
        /\ req[r].text = TX_blank
        /\ gemini_model = "model"
        /\ req[r].context_id \in DOMAIN memory_store
        /\ memory_store[req[r].context_id].messages # <<>>

\* The weather label occurs in the answer, case-insensitively.
HasWeatherLabel(out) ==
    /\ out.kind = "text"
    /\ \E i \in 1..Len(out.text) :
          /\ i + 6 <= Len(out.text)
          /\ Lower(SubSeq(out.text, i, i + 6)) = KW_weather

\* C6: for a non-empty message the classifier returns "weather" exactly when
\* the remote classifier was called and its answer holds the weather label;
\* it returns "chat" for every other answer, for no answer, for a failed
\* call and when the model is not configured; the result is one of the two
\* labels.
C6_LabelFromAnswer ==
    \A r \in Reqs :
        (req[r].entry = "classify" /\ req[r].pc = "done" /\ Strip(req[r].text) # <<>>) =>
            /\ req[r].intent \in {"weather", "chat"}
            /\ req[r].intent = "weather" <=>
                  (req[r].cls_out # NoCall /\ HasWeatherLabel(req[r].cls_out))
            /\ req[r].cls_out = NoCall => req[r].llm_classify = 0
            /\ req[r].cls_out # NoCall => req[r].llm_classify = 1

\* C6 witness: one call answered with the label in another case returned
\* "weather", and one call whose LLM call failed returned "chat".
C6_Witness ==
    \E r, q \in Reqs :
        /\ req[r].pc = "done" /\ req[r].cls_out = LLMText(A_Weather)
        /\ req[r].intent = "weather"
        /\ req[q].pc = "done" /\ req[q].cls_out = LLMRaise
        /\ req[q].intent = "chat"

\* C1: after every save_context call the window of every session holds at
\* most 2K messages and is exactly the most recent suffix of everything
\* recorded for that session (what was removed is the oldest messages).
C1_WindowIsRecentSuffix ==
    \A s \in DOMAIN memory_store :
        /\ Len(memory_store[s].messages) <= 2 * K
        /\ memory_store[s].messages =
              LastN(recorded[s], Min(2 * K, Len(recorded[s])))
        /\ Len(recorded[s]) > 0 =>
              memory_store[s].messages = LastN(recorded[s], 2 * K)

\* C1 witness: a session whose bound was exceeded and whose oldest messages
\* are gone.
C1_Witness ==
    \E s \in DOMAIN memory_store :
        /\ Len(recorded[s]) > 2 * K
        /\ Len(memory_store[s].messages) = 2 * K
        /\ memory_store[s].messages[1] # recorded[s][1]


(***************************************************************************)
(* Specification of the router: one IntentRouterAgentExecutor, as the      *)
(* application builds it, serves the requests; its WeatherAgentExecutor is *)
(* instance 1.  Requests are interleaved at the awaits of the remote       *)
(* calls.                                                                  *)
(***************************************************************************)
\* The requests that may be in progress at once.
RouterCalls == {1, 2}

\* Turns (pairs of messages) recorded over all sessions once a request is
\* received.
MaxRouterTurns == 2

TX_paris == <<"w", "e", "a", "t", "h", "e", "r", " ", "P", "a", "r", "i", "s", "?">>
RouterTexts == {T_hi, TX_wx, TX_paris}
RouterClassifyOutcomes == {LLMRaise, LLMText(A_chat), LLMText(A_Weather)}
RouterChatOutcomes == {LLMRaise, LLMNone, LLMText(<<>>), LLMText(T_ok)}
RouterNormalizeOutcomes == {LLMRaise, LLMText(A_quotes)}
RouterFetchAnswers == {GeoRaise, GeoHttp(500, <<>>)}
RouterGeoAnswers == {GeoRaise, GeoHttp(500, <<>>), GeoHttp(200, <<It_Paris>>)}

\* The router is constructed, as the application does it, before the event
\* loop runs: __init__ builds the WeatherAgentExecutor, whose population
\* task has no running loop to take it.
InitRouter ==
    /\ InitMemVars
    /\ InitStoreVars
    /\ CLASS_LOCATIONS_CACHE = <<>>
    /\ CLASS_CACHE_TIMESTAMP = 0
    /\ inst = [i \in Insts |-> IF i = 1 THEN [NoInst EXCEPT !.created = TRUE] ELSE NoInst]
    /\ fetch = [f \in FetchIds |-> NoFetch]
    /\ published = [mode |-> "none", locations |-> <<>>, got |-> <<>>]
    /\ now = 0
    /\ geo_up = TRUE
    /\ geo_fixed = <<>>
    /\ gemini_model = "None"
    /\ credentials \in BOOLEAN
    /\ last_intent = "None"
    /\ req = [r \in Reqs |-> IdleReq]

\* execute(context, event_queue) is called with a message of session cid.
Receive(r, cid, text, bound, client_ok) ==
    /\ r \in RouterCalls
    /\ req[r].pc = "idle"
    /\ NoneReturning
    /\ TotalRecorded + 2 <= 2 * bound
    /\ LET S0 == SetReq(State, r, [entry |-> "execute", context_id |-> cid,
                                   text |-> text, inst |-> 1])
       IN Commit(Run(router_execute(S0, r, credentials), r, credentials, client_ok))

\* The LLM answers the classification prompt of a request.
IntentAnswered(r, out, client_ok) ==
    /\ req[r].pc = "classify_llm"
    /\ req[r].entry \in {"execute", "endpoint", "wrapper"}
    /\ NoneReturning
    /\ Commit(Run(classify_intent_resume(State, r, out), r, credentials, client_ok))

\* The LLM answers the chat handler's prompt.
ChatAnswered(r, out) ==
    /\ req[r].pc = "chat_llm"
    /\ NoneReturning
    /\ Commit(Run(chat_answer(State, r, out), r, credentials, TRUE))

\* The weather service answers.
WeatherAnswered(r, wx) ==
    /\ req[r].pc = "weather_get"
    /\ NoneReturning
    /\ Commit(Run(weather_answer(State, r, wx), r, credentials, TRUE))

NextRouter ==
    \/ \E r \in Reqs, cid \in {"s1"}, text \in RouterTexts, client_ok \in BOOLEAN :
          Receive(r, cid, text, MaxRouterTurns, client_ok)
    \/ \E r \in Reqs, out \in RouterClassifyOutcomes, client_ok \in BOOLEAN :
          IntentAnswered(r, out, client_ok)
    \/ \E r \in Reqs, out \in RouterChatOutcomes : ChatAnswered(r, out)
    \/ \E r \in Reqs, out \in RouterNormalizeOutcomes, client_ok \in BOOLEAN :
          NormalizeAnswered(r, out, client_ok)
    \/ \E r \in Reqs, ans \in RouterGeoAnswers : GeocodeAnswered(r, ans)
    \/ \E r \in Reqs, wx \in WeatherAnswers : WeatherAnswered(r, wx)
    \/ \E f \in FetchIds, ans \in RouterFetchAnswers : FetchAnswered(f, ans)
    \/ \E f \in FetchIds : FetchWake(f)
    \/ \E f \in FetchIds, ok \in BOOLEAN : FetchClosed(f, ok)
    \/ \E r \in Reqs : CallReturned(r)

SpecRouter == InitRouter /\ [][NextRouter]_vars

(***************************************************************************)
(* Specification of the router under chat traffic of one session: the     *)
(* classifier never answers 'weather'.                                     *)
(***************************************************************************)
\* Turns (pairs of messages) recorded for the session once a request is
\* received.
MaxWindowTurns == 6

WindowTexts == {T_hi, T_ok}
WindowClassifyOutcomes == {LLMRaise, LLMText(A_chat)}
WindowChatOutcomes == {LLMRaise, LLMText(T_ok)}

InitWindow ==
    /\ InitMemVars
    /\ InitStoreVars
    /\ CLASS_LOCATIONS_CACHE = <<>>
    /\ CLASS_CACHE_TIMESTAMP = 0
    /\ inst = [i \in Insts |-> IF i = 1 THEN [NoInst EXCEPT !.created = TRUE] ELSE NoInst]
    /\ fetch = [f \in FetchIds |-> NoFetch]
    /\ published = [mode |-> "none", locations |-> <<>>, got |-> <<>>]
    /\ now = 0
    /\ geo_up = TRUE
    /\ geo_fixed = <<>>
    /\ gemini_model = "None"
    /\ credentials = TRUE
    /\ last_intent = "None"
    /\ req = [r \in Reqs |-> IdleReq]

NextWindow ==
    \/ \E r \in Reqs, text \in WindowTexts : Receive(r, "s1", text, MaxWindowTurns, TRUE)
    \/ \E r \in Reqs, out \in WindowClassifyOutcomes : IntentAnswered(r, out, TRUE)
    \/ \E r \in Reqs, out \in WindowChatOutcomes : ChatAnswered(r, out)
    \/ \E r \in Reqs : CallReturned(r)

SpecWindow == InitWindow /\ [][NextWindow]_vars

(***************************************************************************)
(* Specification of the chat endpoint: every request builds a request      *)
(* handler of its own, inside the running event loop, so that the          *)
(* population task of its WeatherAgentExecutor runs beside the request.    *)
(***************************************************************************)
\* The requests of the endpoint that may be in progress at once.
EndpointCalls == {1}

\* Turns recorded over all sessions once a request is received.
MaxEndpointTurns == 1

TX_weather_only == <<"w", "e", "a", "t", "h", "e", "r", "?">>
EndpointTexts == {T_hi, TX_weather_only, TX_paris}
EndpointFetchAnswers == {GeoRaise, GeoHttp(200, <<It_HaNoi>>)}
EndpointGeoAnswers == {GeoRaise, GeoHttp(500, <<>>), GeoHttp(200, <<It_Paris>>)}
EndpointWeatherAnswers == {WxRaise, WxHttp(500, FALSE), WxHttp(200, TRUE)}

InitEndpoint ==
    /\ InitMemVars
    /\ InitStoreVars
    /\ InitCacheVars
    /\ now = 0
    /\ geo_up = TRUE
    /\ gemini_model = "None"
    /\ credentials \in BOOLEAN
    /\ last_intent = "None"
    /\ req = [r \in Reqs |-> IdleReq]

\* POST /chat/ with a message (ChatRequest.message has at least one
\* character) of session cid.
ChatWithAgent(r, i, cid, text, client_ok) ==
    /\ r \in EndpointCalls
    /\ req[r].pc = "idle"
    /\ NoneReturning
    /\ i = NextInst
    /\ TotalRecorded + 2 <= 2 * MaxEndpointTurns
    /\ Commit(Run(process_message_with_agent(State, r, i, cid, text, credentials,
                                             client_ok),
                  r, credentials, client_ok))

\* A call of log_agent_response made for the request is over.
LogAnswered(r, out) ==
    /\ req[r].pc \in {"wrapper_log", "wrapper_log_error", "endpoint_log"}
    /\ NoneReturning
    /\ Commit(IF req[r].pc = "endpoint_log" THEN endpoint_logged(State, r, out)
              ELSE wrapper_logged(State, r, out))

\* The answer has gone to the client: the request handler, its router and
\* its executors are dropped, unless the population task of the
\* WeatherAgentExecutor still runs and holds it.
EndpointReturned(r) ==
    /\ req[r].pc = "done"
    /\ req[r].entry = "endpoint"
    /\ LET i == req[r].inst
           S1 == [State EXCEPT !.req[r] = IdleReq, !.fetch[<<"call", r>>] = NoFetch]
       IN Commit(IF fetch[<<"task", i>>].pc \in {"idle", "done"}
                 THEN [S1 EXCEPT !.inst[i] = NoInst, !.fetch[<<"task", i>>] = NoFetch]
                 ELSE S1)

NextEndpoint ==
    \/ \E r \in Reqs, i \in Insts, text \in EndpointTexts, client_ok \in BOOLEAN :
          ChatWithAgent(r, i, "s1", text, client_ok)
    \/ \E f \in FetchIds, client_ok \in BOOLEAN : TaskBegin(f, client_ok)
    \/ \E f \in FetchIds, ans \in EndpointFetchAnswers : FetchAnswered(f, ans)
    \/ \E f \in FetchIds : FetchWake(f)
    \/ \E f \in FetchIds, ok \in BOOLEAN : FetchClosed(f, ok)
    \/ \E r \in Reqs, out \in RouterClassifyOutcomes, client_ok \in BOOLEAN :
          IntentAnswered(r, out, client_ok)
    \/ \E r \in Reqs, out \in RouterChatOutcomes : ChatAnswered(r, out)
    \/ \E r \in Reqs, out \in RouterNormalizeOutcomes, client_ok \in BOOLEAN :
          NormalizeAnswered(r, out, client_ok)
    \/ \E r \in Reqs, ans \in EndpointGeoAnswers : GeocodeAnswered(r, ans)
    \/ \E r \in Reqs, wx \in EndpointWeatherAnswers : WeatherAnswered(r, wx)
    \/ \E r \in Reqs, out \in LogOutcomes : LogAnswered(r, out)
    \/ \E r \in Reqs : EndpointReturned(r)

SpecEndpoint == InitEndpoint /\ [][NextEndpoint]_vars

(***************************************************************************)
(* Specification of one wrapper shared by the requests of the process:     *)
(* create_a2a_server builds one request handler, with one wrapper around   *)
(* one router, for every request the application serves.                   *)
(***************************************************************************)
\* The calls of the wrapper's execute that may be in progress at once.
SharedCalls == {1, 2}

\* Turns recorded for the session once a call is made.
MaxSharedTurns == 2

SharedTexts == {T_hi, TX_weather_only}
SharedClassifyOutcomes == {LLMRaise, LLMText(A_chat), LLMText(A_Weather)}
SharedChatOutcomes == {LLMRaise, LLMText(T_ok)}

\* execute(session_id, user_message) is called on the wrapper.
WrapperExecute(r, cid, text) ==
    /\ r \in SharedCalls
    /\ req[r].pc = "idle"
    /\ NoneReturning
    /\ TotalRecorded + 2 <= 2 * MaxSharedTurns
    /\ Commit(Run(wrapper_execute(State, r, cid, text, credentials),
                  r, credentials, TRUE))

NextShared ==
    \/ \E r \in Reqs, text \in SharedTexts : WrapperExecute(r, "s1", text)
    \/ \E r \in Reqs, out \in SharedClassifyOutcomes : IntentAnswered(r, out, TRUE)
    \/ \E r \in Reqs, out \in SharedChatOutcomes : ChatAnswered(r, out)
    \/ \E r \in Reqs, out \in LogOutcomes : LogAnswered(r, out)
    \/ \E r \in Reqs : CallReturned(r)

SpecShared == InitRouter /\ [][NextShared]_vars

(***************************************************************************)
(* Specification of the normaliser: _normalize_location_with_llm is called *)
(* on its own, in a process that has a model configured or has none.       *)
(***************************************************************************)
A_empty_quoted == <<" ", "'", "'", "\n">>

\* Candidates the normaliser is called with.
NormalizeTexts == {L_HANOI, L_camau, N_Paris, TX_blank}

\* What the LLM gives: the call raises (a timeout of the transport is one
\* of its exceptions), no response or no text, an empty text, a text of
\* white space or of quotes only, a name in quotes.
NormalizeLLMOutcomes ==
    {LLMRaise, LLMNone, LLMText(<<>>), LLMText(A_blank), LLMText(A_quotes),
     LLMText(A_empty_quoted), LLMText(A_HaNoi_quoted)}

\* await self._normalize_location_with_llm(location)
CallNormalize(r, location) ==
    /\ req[r].pc = "idle"
    /\ NoneReturning
    /\ LET S0 == SetReq(State, r, [entry |-> "normalize", inst |-> 1,
                                   location |-> location])
       IN Commit(Run(geocode_enter(S0, r), r, credentials, TRUE))

\* The LLM answers the prompt of such a call; the answer is kept.
NormalizeCallAnswered(r, out) ==
    /\ req[r].pc = "normalize_llm"
    /\ req[r].entry = "normalize"
    /\ NoneReturning
    /\ Commit(SetReq(Run(geocode_normalized(State, r, out), r, credentials, TRUE),
                     r, [norm_out |-> out]))

NextNormalize ==
    \/ \E r \in Reqs, location \in NormalizeTexts : CallNormalize(r, location)
    \/ \E r \in Reqs, out \in NormalizeLLMOutcomes : NormalizeCallAnswered(r, out)
    \/ \E r \in Reqs : CallReturned(r)

SpecNormalize == InitResolve /\ [][NextNormalize]_vars

(***************************************************************************)
(* Specification of the extraction: _extract_location is called on texts  *)
(* made of a keyword, a time word, a name, a comma and spaces.             *)
(***************************************************************************)
\* Pieces a text is made of.
MaxTokens == 3

ExtractTokens == {KW_weather, TimeWords[2], N_Hue, <<" ">>, <<",">>}

RECURSIVE Concat(_)
Concat(pieces) == IF pieces = <<>> THEN <<>> ELSE Head(pieces) \o Concat(Tail(pieces))

ExtractTexts ==
    {Concat(pieces) : pieces \in UNION {[1..n -> ExtractTokens] : n \in 1..MaxTokens}}

\* await self._extract_location(text): it has no suspension.
CallExtract(r, text) ==
    /\ req[r].pc = "idle"
    /\ NoneReturning
    /\ Commit(SetReq(State, r, [entry |-> "extract", pc |-> "done", text |-> text,
                                location |-> _extract_location(text)]))

NextExtract ==
    \/ \E r \in Reqs, text \in ExtractTexts : CallExtract(r, text)
    \/ \E r \in Reqs : CallReturned(r)

SpecExtract == InitRouter /\ [][NextExtract]_vars

(***************************************************************************)
(* Specification of the end-to-end scenarios: one message is sent to the   *)
(* chat endpoint while the geocoder and the weather service are stand-ins  *)
(* that give one fixed answer each, and the LLM answers as it likes or     *)
(* fails.                                                                  *)
(***************************************************************************)
\* 'Thời tiết Hà Nội hôm nay'
TX_hanoi_today ==
    <<"T", "h", "ờ", "i", " ", "t", "i", "ế", "t", " ", "H", "à", " ", "N", "ộ", "i",
      " ", "h", "ô", "m", " ", "n", "a", "y">>
\* 'xin chào'
T_xin_chao == <<"x", "i", "n", " ", "c", "h", "à", "o">>
\* 'Chào bạn!'
T_chao_ban == <<"C", "h", "à", "o", " ", "b", "ạ", "n", "!">>

\* A result of country VN that the geocoder names without diacritics.
It_HaNoi_plain == Item(N_HaNoi_nd, "VN", 210245, 1058412, TRUE)

ScenarioTexts == {TX_hanoi_today, T_xin_chao}
ScenarioClassifyOutcomes == {LLMRaise, LLMText(A_chat), LLMText(A_Weather)}
ScenarioChatOutcomes == {LLMRaise, LLMText(T_chao_ban)}
ScenarioNormalizeOutcomes == {LLMRaise, LLMText(N_HaNoi), LLMText(N_Paris)}

\* The stand-ins: whether an HTTP client can be made, the one result of
\* country VN the geocoder gives to every query, and the answer of the
\* weather service.
ScenarioEnvironments ==
    { [client_ok |-> c, item |-> it, answers |-> <<GeoHttp(200, <<it>>), GeoHttp(200, <<it>>)>>,
       weather |-> wx] :
        c \in BOOLEAN,
        it \in {It_HaNoi, It_HaNoi_plain},
        wx \in {WxCurrent(28, FALSE, 0), WxCurrent(28, TRUE, 0), WxCurrent(28, FALSE, 7)} }

InitScenario ==
    /\ InitMemVars
    /\ InitStoreVars
    /\ CLASS_LOCATIONS_CACHE = <<>>
    /\ CLASS_CACHE_TIMESTAMP = 0
    /\ inst = [i \in Insts |-> NoInst]
    /\ fetch = [f \in FetchIds |-> NoFetch]
    /\ published = [mode |-> "none", locations |-> <<>>, got |-> <<>>]
    /\ now = 0
    /\ geo_up = TRUE
    /\ geo_fixed \in ScenarioEnvironments
    /\ gemini_model = "None"
    /\ credentials \in BOOLEAN
    /\ last_intent = "None"
    /\ req = [r \in Reqs |-> IdleReq]

\* The stand-in of the geocoder answers the query of a pass of a population.
ScenarioFetchAnswered(f) ==
    /\ fetch[f].pc = "get"
    /\ NoneReturning
    /\ Commit(fetch_answer(State, f, geo_fixed.answers[fetch[f].i]))

\* The stand-in of the geocoder answers a remote query of _geocode.
ScenarioGeocodeAnswered(r) ==
    /\ req[r].pc = "geocode_get"
    /\ NoneReturning
    /\ Commit(Run(geocode_answer(State, r, GeoHttp(200, <<geo_fixed.item>>)),
                  r, credentials, TRUE))

NextScenario ==
    \/ \E r \in Reqs, i \in Insts, text \in ScenarioTexts :
          ChatWithAgent(r, i, "s1", text, geo_fixed.client_ok)
    \/ \E f \in FetchIds : TaskBegin(f, geo_fixed.client_ok)
    \/ \E f \in FetchIds : ScenarioFetchAnswered(f)
    \/ \E f \in FetchIds : FetchWake(f)
    \/ \E f \in FetchIds : FetchClosed(f, TRUE)
    \/ \E r \in Reqs, out \in ScenarioClassifyOutcomes :
          IntentAnswered(r, out, geo_fixed.client_ok)
    \/ \E r \in Reqs, out \in ScenarioChatOutcomes : ChatAnswered(r, out)
    \/ \E r \in Reqs, out \in ScenarioNormalizeOutcomes :
          NormalizeAnswered(r, out, geo_fixed.client_ok)
    \/ \E r \in Reqs : ScenarioGeocodeAnswered(r)
    \/ \E r \in Reqs : WeatherAnswered(r, geo_fixed.weather)
    \/ \E r \in Reqs, out \in LogOutcomes : LogAnswered(r, out)
    \/ \E r \in Reqs : EndpointReturned(r)

SpecScenario == InitScenario /\ [][NextScenario]_vars

(***************************************************************************)
(* Specification of the process without credentials for the LLM: neither   *)
(* GOOGLE_API_KEY nor GEMINI_API_KEY is set, so no model is ever           *)
(* configured.  The router serves requests and _geocode is called.         *)
(***************************************************************************)
NoCredentialsTexts == {T_hi, TX_wx, TX_blank}
NoCredentialsLocations == {N_Paris, L_HANOI}

InitNoCredentials ==
    /\ InitMemVars
    /\ InitStoreVars
    /\ CLASS_LOCATIONS_CACHE = <<>>
    /\ CLASS_CACHE_TIMESTAMP = 0
    /\ inst = [i \in Insts |-> IF i = 1 THEN [NoInst EXCEPT !.created = TRUE] ELSE NoInst]
    /\ fetch = [f \in FetchIds |-> NoFetch]
    /\ published = [mode |-> "none", locations |-> <<>>, got |-> <<>>]
    /\ now = 0
    /\ geo_up = TRUE
    /\ geo_fixed = <<>>
    /\ gemini_model = "None"
    /\ credentials = FALSE
    /\ last_intent = "None"
    /\ req = [r \in Reqs |-> IdleReq]

NextNoCredentials ==
    \/ \E r \in Reqs, text \in NoCredentialsTexts :
          Receive(r, "s1", text, MaxRouterTurns, TRUE)
    \/ \E r \in Reqs, location \in NoCredentialsLocations, client_ok \in BOOLEAN :
          CallGeocode(r, 1, location, client_ok)
    \/ \E r \in Reqs, ans \in RouterGeoAnswers : GeocodeAnswered(r, ans)
    \/ \E f \in FetchIds, ans \in EndpointFetchAnswers : FetchAnswered(f, ans)
    \/ \E f \in FetchIds : FetchWake(f)
    \/ \E f \in FetchIds, ok \in BOOLEAN : FetchClosed(f, ok)
    \/ \E r \in Reqs : CallReturned(r)

SpecNoCredentials == InitNoCredentials /\ [][NextNoCredentials]_vars

(***************************************************************************)
(* Specification of cancellation: the transport calls cancel() for a      *)
(* request of the router that is in progress.                              *)
(***************************************************************************)
CancelTexts == {T_hi, TX_weather_only}
CancelClassifyOutcomes == {LLMText(A_chat), LLMText(A_Weather)}
CancelChatOutcomes == {LLMRaise, LLMText(T_ok)}

\* cancel(context, event_queue) is called for request r, which waits for a
\* remote call; what becomes of the task that runs execute is the
\* transport's business.
Cancel(r, weather_ok, chat_ok) ==
    /\ req[r].entry = "execute"
    /\ req[r].pc \in {"classify_llm", "chat_llm"}
    /\ req[r].cancels = <<>>
    /\ NoneReturning
    /\ Commit(router_cancel(State, r, weather_ok, chat_ok))

NextCancel ==
    \/ \E r \in Reqs, text \in CancelTexts : Receive(r, "s1", text, MaxRouterTurns, TRUE)
    \/ \E r \in Reqs, out \in CancelClassifyOutcomes : IntentAnswered(r, out, TRUE)
    \/ \E r \in Reqs, out \in CancelChatOutcomes : ChatAnswered(r, out)
    \/ \E r \in Reqs, weather_ok \in BOOLEAN, chat_ok \in BOOLEAN :
          Cancel(r, weather_ok, chat_ok)
    \/ \E r \in Reqs : CallReturned(r)

SpecCancel == InitWindow /\ [][NextCancel]_vars

(***************************************************************************)
(* Specification of the router under callers that serialize per session:   *)
(* a request of a session is received only when no other request of that   *)
(* session is in progress.  Requests of different sessions interleave.      *)
(***************************************************************************)
\* Turns recorded over all sessions once a request is received.
MaxSerialTurns == 3

SerialTexts == {T_hi, TX_weather_only}
SerialClassifyOutcomes == {LLMText(A_chat), LLMText(A_Weather)}
SerialChatOutcomes == {LLMRaise, LLMText(T_ok)}

\* No request of session cid is in progress.
SessionFree(cid) ==
    \A q \in Reqs : req[q].pc # "idle" => req[q].context_id # cid

ReceiveSerialized(r, cid, text) ==
    /\ SessionFree(cid)
    /\ Receive(r, cid, text, MaxSerialTurns, TRUE)

NextSerial ==
    \/ \E r \in Reqs, cid \in Sessions, text \in SerialTexts :
          ReceiveSerialized(r, cid, text)
    \/ \E r \in Reqs, out \in SerialClassifyOutcomes : IntentAnswered(r, out, TRUE)
    \/ \E r \in Reqs, out \in SerialChatOutcomes : ChatAnswered(r, out)
    \/ \E r \in Reqs : CallReturned(r)

SpecSerial == InitWindow /\ [][NextSerial]_vars

(***************************************************************************)
(* Specification of one session under chat traffic, its requests served   *)
(* one at a time: long enough for the window to fill up.                   *)
(***************************************************************************)
\* Turns recorded for the session once a request is received.
MaxHistoryTurns == 8

\* execute is called for session s1 while no request of it is in progress.
ReceiveNext(r, text) ==
    /\ SessionFree("s1")
    /\ Receive(r, "s1", text, MaxHistoryTurns, TRUE)

NextHistory ==
    \/ \E r \in Reqs, text \in WindowTexts : ReceiveNext(r, text)
    \/ \E r \in Reqs, out \in WindowClassifyOutcomes : IntentAnswered(r, out, TRUE)
    \/ \E r \in Reqs, out \in WindowChatOutcomes : ChatAnswered(r, out)
    \/ \E r \in Reqs : CallReturned(r)

SpecHistory == InitWindow /\ [][NextHistory]_vars

(***************************************************************************)
(* Specification of the router with the progress the code provides.  The   *)
(* HTTP clients of the geocoder and of the weather service are built with  *)
(* timeout=10 (timeout=30 in the population): a GET is answered or raises  *)
(* within that time.  asyncio.sleep(0.1) ends, and the event loop runs     *)
(* what is ready.  The calls of the LLM (generate_content_async, or         *)
(* generate_content in the executor's thread) are made without a timeout   *)
(* and are not wrapped in one: nothing in the code makes them end.         *)
(***************************************************************************)
\* The requests that may be in progress at once.
TimeoutCalls == {1}

TimeoutTexts == {T_hi, TX_paris}

\* A step that the timeouts of the HTTP clients, the end of a sleep or the
\* event loop bring about.
TimedStep ==
    \/ \E r \in Reqs, ans \in RouterGeoAnswers : GeocodeAnswered(r, ans)
    \/ \E r \in Reqs, wx \in WeatherAnswers : WeatherAnswered(r, wx)
    \/ \E f \in FetchIds, ans \in RouterFetchAnswers : FetchAnswered(f, ans)
    \/ \E f \in FetchIds : FetchWake(f)
    \/ \E f \in FetchIds, ok \in BOOLEAN : FetchClosed(f, ok)
    \/ \E r \in Reqs : CallReturned(r)

\* A step that an answer of the LLM brings about.
LLMStep ==
    \/ \E r \in Reqs, out \in RouterClassifyOutcomes, client_ok \in BOOLEAN :
          IntentAnswered(r, out, client_ok)
    \/ \E r \in Reqs, out \in RouterChatOutcomes : ChatAnswered(r, out)
    \/ \E r \in Reqs, out \in RouterNormalizeOutcomes, client_ok \in BOOLEAN :
          NormalizeAnswered(r, out, client_ok)

NextTimeout ==
    \/ \E r \in TimeoutCalls, text \in TimeoutTexts, client_ok \in BOOLEAN :
          Receive(r, "s1", text, MaxRouterTurns, client_ok)
    \/ LLMStep
    \/ TimedStep

SpecTimeout == InitRouter /\ [][NextTimeout]_vars /\ WF_vars(TimedStep)

(***************************************************************************)
(* Specification of the startup hook: the host calls preload_locations,    *)
(* any number of times, one call after the other or several at once, in a  *)
(* process whose environment behaves the same way every time: the HTTP     *)
(* client can be built or it cannot, and the geocoder gives each query of  *)
(* the population one answer.                                              *)
(***************************************************************************)
\* The calls of preload_locations that may be in progress at once.
PreloadCalls == {1, 2}

\* The ways the environment may be fixed.
PreloadEnvironments ==
    { [client_ok |-> c, answers |-> <<a1, a2>>] :
        c \in BOOLEAN,
        a1 \in GeoAnswers(vietnam_queries[1], TRUE),
        a2 \in GeoAnswers(vietnam_queries[2], TRUE) }

InitPreload ==
    /\ InitMemVars
    /\ InitStoreVars
    /\ CLASS_LOCATIONS_CACHE = <<>>
    /\ CLASS_CACHE_TIMESTAMP = 0
    /\ inst = [i \in Insts |-> NoInst]
    /\ fetch = [f \in FetchIds |-> NoFetch]
    /\ published = [mode |-> "none", locations |-> <<>>, got |-> <<>>]
    /\ now = 0
    /\ geo_up = TRUE
    /\ geo_fixed \in PreloadEnvironments
    /\ gemini_model = "None"
    /\ credentials = TRUE
    /\ last_intent = "None"
    /\ req = [r \in Reqs |-> IdleReq]

\* await WeatherAgentExecutor.preload_locations()
Preload(r, i) ==
    /\ r \in PreloadCalls
    /\ req[r].pc = "idle"
    /\ NoneReturning
    /\ i = NextInst
    /\ Commit(Run(preload_locations(State, r, i, geo_fixed.client_ok), r,
                  credentials, geo_fixed.client_ok))

\* The geocoder answers the query of a pass of a population.
PreloadFetchAnswered(f) ==
    /\ fetch[f].pc = "get"
    /\ FetchAnswered(f, geo_fixed.answers[fetch[f].i])

\* The caller has the table: tmp is dropped, unless its background task
\* still runs and holds it.
PreloadReturned(r) ==
    /\ req[r].pc = "done"
    /\ req[r].entry = "preload"
    /\ LET i == req[r].inst
           S1 == [State EXCEPT !.req[r] = IdleReq, !.fetch[<<"call", r>>] = NoFetch]
       IN Commit(IF fetch[<<"task", i>>].pc \in {"idle", "done"}
                 THEN [S1 EXCEPT !.inst[i] = NoInst, !.fetch[<<"task", i>>] = NoFetch]
                 ELSE S1)

NextPreload ==
    \/ \E r \in Reqs, i \in Insts : Preload(r, i)
    \/ \E f \in FetchIds : TaskBegin(f, geo_fixed.client_ok)
    \/ \E f \in FetchIds : PreloadFetchAnswered(f)
    \/ \E f \in FetchIds : FetchWake(f)
    \/ \E f \in FetchIds : FetchClosed(f, TRUE)
    \/ \E r \in Reqs : PreloadReturned(r)

SpecPreload == InitPreload /\ [][NextPreload]_vars

(***************************************************************************)
(* The shared location cache.                                              *)
(***************************************************************************)
StaticKeys == {MAJOR_CITIES_FALLBACK[j][1] : j \in 1..Len(MAJOR_CITIES_FALLBACK)}

\* The tables a run of the population can build when it goes through every
\* query: the static table merged with what the passes accepted.
RECURSIVE PassesOver(_, _, _)
PassesOver(locations, queries, answers) ==
    IF queries = <<>> THEN locations
    ELSE PassesOver(fetch_pass(locations, Head(queries), Head(answers)),
                    Tail(queries), Tail(answers))

WholeTables ==
    {MAJOR_CITIES_FALLBACK} \cup
    { DictMerge(MAJOR_CITIES_FALLBACK, PassesOver(<<>>, vietnam_queries, <<a1, a2>>)) :
        a1 \in GeoAnswers(vietnam_queries[1], TRUE),
        a2 \in GeoAnswers(vietnam_queries[2], TRUE) }

\* C7: the shared cache is empty until the first publication and from then
\* on always holds the table of the last run that published: the static
\* table merged with the private table of a run that had gone through every
\* query, or the static table alone after a failed run.  It never holds the
\* entries of a run still in progress, and the table a reader took from it
\* is a whole one.
C7_SwapInWhole ==
    /\ CASE published.mode = "none" -> CLASS_LOCATIONS_CACHE = <<>>
         [] published.mode = "merged" ->
              /\ Len(published.got) = Len(vietnam_queries)
              /\ DictKeys(CLASS_LOCATIONS_CACHE) =
                    StaticKeys \cup DictKeys(published.locations)
              /\ \A k \in DictKeys(CLASS_LOCATIONS_CACHE) :
                    DictGet(CLASS_LOCATIONS_CACHE, k) =
                       IF DictHas(published.locations, k)
                       THEN DictGet(published.locations, k)
                       ELSE DictGet(MAJOR_CITIES_FALLBACK, k)
         [] published.mode = "fallback" ->
              CLASS_LOCATIONS_CACHE = MAJOR_CITIES_FALLBACK
    /\ \A r \in Reqs :
          req[r].seen_src = "class" => req[r].seen \in WholeTables

\* A reader has taken the table from the shared cache while a run has a
\* private table with entries that the shared cache does not hold.
C7_Witness ==
    \E r \in Reqs, f \in FetchIds :
       /\ req[r].pc = "done" /\ req[r].seen_src = "class"
       /\ fetch[f].pc \in {"get", "sleep"}
       /\ fetch[f].locations # <<>>
       /\ \E k \in DictKeys(fetch[f].locations) : ~DictHas(req[r].seen, k)

\* C8: once the shared table is populated it has every key of the static
\* table, and the value under a static key is the static one unless a query
\* of the publishing run was answered with a place that has this key, in
\* which case it is that place; a population whose every query failed
\* leaves exactly the static table.
C8_StaticSurvives ==
    published.mode # "none" =>
       /\ \A j \in 1..Len(MAJOR_CITIES_FALLBACK) :
             LET k == MAJOR_CITIES_FALLBACK[j][1]
                 v == MAJOR_CITIES_FALLBACK[j][2]
             IN /\ DictHas(CLASS_LOCATIONS_CACHE, k)
                /\ \/ DictGet(CLASS_LOCATIONS_CACHE, k) = v
                   \/ \E q \in 1..Len(published.got) :
                         LET it == published.got[q].item
                             query == vietnam_queries[q]
                             name == IF it.name # <<>> THEN it.name ELSE query
                         IN /\ published.got[q].ok
                            /\ k \in {Lower(name), Lower(_strip_diacritics(name)),
                                      Lower(query), Lower(_strip_diacritics(query))}
                            /\ DictGet(CLASS_LOCATIONS_CACHE, k) =
                                  <<it.latitude, it.longitude, name>>
       /\ (\A q \in 1..Len(published.got) : ~published.got[q].ok) =>
             CLASS_LOCATIONS_CACHE = MAJOR_CITIES_FALLBACK

\* The table was published by a run in which one query was answered (with a
\* place whose key is also a static key) and the other failed.
C8_Witness ==
    /\ published.mode = "merged"
    /\ published.got[1].ok /\ ~published.got[2].ok
    /\ DictGet(CLASS_LOCATIONS_CACHE, Lower(N_HaNoi)) #
          DictGet(MAJOR_CITIES_FALLBACK, Lower(N_HaNoi))
    /\ DictGet(CLASS_LOCATIONS_CACHE, Lower(N_Hue)) =
          DictGet(MAJOR_CITIES_FALLBACK, Lower(N_Hue))


(***************************************************************************)
(* The location resolver.                                                  *)
(***************************************************************************)
\* A call of _geocode that has come to its end.
Resolved(r) == req[r].entry = "geocode" /\ req[r].pc = "done"

K_hanoi == <<"h", "à", " ", "n", "ộ", "i">>
StaticHaNoi ==
    [kind |-> "coords", lat |-> 210285, lon |-> 1058542,
     name |-> <<"H", "à", " ", "N", "ộ", "i">>]

\* C9: a call for Hà Nội (the normalized name, lowercased and stripped, is
\* 'hà nội') that finds the shared cache empty or expired while the remote
\* geocoder is down, or finds in it the static table alone, as a failed
\* population leaves it, returns the static entry (21.0285, 105.8542, 'Hà Nội')
\* and does not raise.  Coordinates are in units of 1/10000 degree.
C9_HaNoiFromStatic ==
    \A r \in Reqs :
       ( /\ Resolved(r)
         /\ Strip(Lower(req[r].normalized)) = K_hanoi
         /\ \/ req[r].cache_at_read \in {"empty", "expired"} /\ req[r].down_at_read
            \/ /\ req[r].cache_at_read = "fresh"
               /\ req[r].seen = MAJOR_CITIES_FALLBACK )
       => /\ req[r].ret = StaticHaNoi
          /\ ~req[r].raised

\* The call found the cache expired with the geocoder down, ran the
\* population itself and returned the static entry.
C9_Witness ==
    \E r \in Reqs :
       /\ Resolved(r)
       /\ req[r].location = L_HANOI
       /\ req[r].cache_at_read = "expired" /\ req[r].down_at_read
       /\ req[r].seen_src = "fetch"
       /\ req[r].ret = StaticHaNoi

\* What makes an answer of the geocoder usable for _geocode: status 200, a
\* non-empty list, and coordinates that parse in the result tagged VN if
\* there is one, in the first result otherwise.
Preferred(ans) ==
    IF \E j \in 1..Len(ans.results) : IsVN(ans.results[j])
    THEN ans.results[CHOOSE j \in 1..Len(ans.results) :
                        /\ IsVN(ans.results[j])
                        /\ \A h \in 1..(j - 1) : ~IsVN(ans.results[h])]
    ELSE ans.results[1]
CallFailed(ans) == ans.kind \in {"raise", "badjson"}
Usable(ans) ==
    /\ ans.kind = "http" /\ ans.status = 200
    /\ ans.results # <<>>
    /\ Preferred(ans).coords_ok

\* The remote queries of the contract, in order.
QueriesInOrder(normalized, original) ==
    <<normalized>>
    \o (IF original # normalized THEN <<original>> ELSE <<>>)
    \o (IF _strip_diacritics(normalized) \notin {<<>>, normalized}
        THEN <<_strip_diacritics(normalized)>> ELSE <<>>)

KeyMatches(key, name) == Contains(key, name) \/ Contains(name, key)

\* C10: a finished call of _geocode has returned the entry under the
\* lowercased, stripped normalized name if the table has that key; else the
\* entry under the first key of the table that contains the name or is
\* contained in it; else it has sent the remote queries in the order
\* normalized, original, diacritic-stripped, each one only after every
\* earlier one was answered without a usable result, and has returned
\* the place of the first usable answer (the result tagged VN if there
\* is one); it has returned none exactly when the table matched nothing
\* and every query was sent and answered without a usable result.  A query
\* whose call fails (exception, body that is not JSON) ends the call by
\* raising.
C10_LookupOrder ==
    \A r \in Reqs : Resolved(r) =>
       LET R == req[r]
           name == Strip(Lower(R.normalized))
           table == R.seen
           Q == QueriesInOrder(R.normalized, R.location)
           n == Len(R.answers)
           exact == \E j \in 1..Len(table) : table[j][1] = name
           fuzzy == \E j \in 1..Len(table) : KeyMatches(table[j][1], name)
           exhausted == /\ ~exact /\ ~fuzzy /\ n = Len(Q)
                        /\ \A j \in 1..n : ~Usable(R.answers[j].ans)
                                           /\ ~CallFailed(R.answers[j].ans)
       IN /\ exact =>
               /\ n = 0 /\ ~R.raised
               /\ \E j \in 1..Len(table) :
                     table[j][1] = name /\ R.ret = RetCoords(table[j][2])
          /\ ~exact /\ fuzzy =>
               /\ n = 0 /\ ~R.raised
               /\ \E j \in 1..Len(table) :
                     /\ KeyMatches(table[j][1], name)
                     /\ \A h \in 1..(j - 1) : ~KeyMatches(table[h][1], name)
                     /\ R.ret = RetCoords(table[j][2])
          /\ ~exact /\ ~fuzzy =>
               /\ n \in 1..Len(Q)
               /\ \A j \in 1..n : R.answers[j].q = Q[j]
               /\ \A j \in 1..(n - 1) : ~Usable(R.answers[j].ans)
                                        /\ ~CallFailed(R.answers[j].ans)
               /\ R.raised <=> CallFailed(R.answers[n].ans)
               /\ Usable(R.answers[n].ans) =>
                     LET it == Preferred(R.answers[n].ans)
                     IN R.ret = [kind |-> "coords", lat |-> it.latitude,
                                 lon |-> it.longitude,
                                 name |-> IF it.name # <<>> THEN it.name
                                          ELSE R.normalized]
          /\ (R.ret = RetNone /\ ~R.raised) <=> exhausted

\* The call sent all three queries: the first two got nothing usable, the
\* third a list whose second result is the one tagged VN, which it took.
C10_Witness ==
    \E r \in Reqs :
       /\ Resolved(r)
       /\ Len(req[r].answers) = 3
       /\ req[r].answers[3].q = N_CaMau_nd
       /\ req[r].ret.kind = "coords"
       /\ req[r].ret.lat = It_CaMau_noname.latitude
       /\ req[r].ret.name = N_CaMau


(***************************************************************************)
(* The router.                                                             *)
(***************************************************************************)
Routed(r) == req[r].entry = "execute"
Stages == <<"received", "intent_classified", "dispatched", "completed">>
WeatherReplies == {"ask_location", "location_not_found", "weather_unavailable",
                   "weather_report"}
ChatReplies == {"configuration_error", "call_failed", "no_response", "answer"}

\* C2: execute never raises to its caller because a remote collaborator
\* failed: every request that has ended has ended by returning, with a reply
\* on the event queue.
C2_NeverRaises ==
    \A r \in Reqs :
       (Routed(r) /\ req[r].pc = "done") => ~req[r].raised /\ req[r].events # <<>>

TurnRecorded(r) ==
    LET rec == recorded[req[r].context_id]
        p == req[r].rec_pos
    IN /\ p >= 1 /\ p + 1 <= Len(rec)
       /\ rec[p] = [role |-> "user", content |-> req[r].text]
       /\ rec[p + 1] = [role |-> "assistant", content |-> <<>>]

\* C4 as stated: the turn is recorded before the classifier and the handler
\* run, and the history each of them renders holds the current message.
C4_AsStated ==
    \A r \in Reqs : Routed(r) =>
       /\ TurnRecorded(r)
       /\ req[r].cls_saw # "no"
       /\ req[r].chat_saw # "no"

\* C4 amended: the turn is recorded, with an empty reply, before the
\* classifier and the handler run; the history the classifier renders always
\* holds the current message; the history the chat handler renders holds it
\* whenever fewer than 2K messages were recorded for the session after the
\* user turn by then (its own empty reply and at most 2K - 2 messages of
\* other requests of the session).
C4_RecordedBeforeUse ==
    \A r \in Reqs : Routed(r) =>
       /\ TurnRecorded(r)
       /\ req[r].cls_saw # "no"
       /\ (req[r].chat_saw # "norender" /\ req[r].later_at_render < 2 * K) =>
             req[r].chat_saw = "yes"

\* A chat handler has rendered a history that holds the request's message
\* although other requests of the session recorded messages in between.
C4_Witness ==
    \E r \in Reqs :
       /\ Routed(r)
       /\ req[r].cls_saw = "yes"
       /\ req[r].chat_saw = "yes"
       /\ req[r].later_at_render > 1


(***************************************************************************)
(* The weather handler.                                                    *)
(***************************************************************************)
\* A request of the chat endpoint.
AtEndpoint(r) == req[r].entry = "endpoint"

\* The weather handler ran for the request and its extraction gave nothing:
\* its reply is the clarification message (line 681).
AskedLocation(r) ==
    /\ req[r].handlers = <<"weather">>
    /\ _extract_location(req[r].text) = <<>>
    /\ req[r].pc \notin {"idle", "classify_llm"}

\* What execute of the weather handler itself did for such a request: no
\* normalization, no read of the table, no population awaited, no query to
\* the geocoder, no GET to the weather service.
NoResolveNoWeather(r) ==
    /\ req[r].events = <<"ask_location">>
    /\ req[r].normalized = <<>>
    /\ req[r].cache_at_read = "none"
    /\ fetch[<<"call", r>>] = NoFetch
    /\ req[r].answers = <<>>
    /\ req[r].wx_calls = 0

\* C11 as stated: when the extraction yields nothing the reply is the
\* clarification message and handling the request makes no call to the
\* geocoder and none to the weather service: the population task of the
\* WeatherAgentExecutor built for the request has sent no query either.
C11_AsStated ==
    \A r \in Reqs : (AtEndpoint(r) /\ AskedLocation(r)) =>
       /\ NoResolveNoWeather(r)
       /\ fetch[<<"task", req[r].inst>>].pc \in {"idle", "start"}

\* C11 amended: when the extraction yields nothing the reply is the
\* clarification message, it is the only reply, and execute of the weather
\* handler makes no call to the geocoder and none to the weather service;
\* the only geocoder calls made while the request is handled are the
\* queries of a population task, which runs only for an executor that was
\* constructed while the shared cache was empty.
C11_ClarificationWithoutLookup ==
    \A r \in Reqs : (AtEndpoint(r) /\ AskedLocation(r)) =>
       /\ NoResolveNoWeather(r)
       /\ \A f \in FetchIds :
             fetch[f].pc \in {"get", "sleep", "closing"} => f[1] = "task"

\* A request got the clarification message while the population task of
\* its executor had a query in flight.
C11_Witness ==
    \E r \in Reqs :
       /\ AtEndpoint(r) /\ AskedLocation(r)
       /\ req[r].text = TX_weather_only
       /\ req[r].http.response = "ask_location"
       /\ fetch[<<"task", req[r].inst>>].pc = "get"

\* The weather handler ran for a request of the router and the request has
\* ended.
WeatherEnded(r) ==
    /\ Routed(r) /\ req[r].pc = "done"
    /\ req[r].handlers = <<"weather">>

\* A remote call that failed: the call raised (network error, timeout), the
\* body was not JSON, the status was not 200, or, for the weather service,
\* the answer held no temperature.
GeoCallFailed(ans) == ans.kind \in {"raise", "badjson"} \/ ans.status # 200
WxCallFailed(wx) == wx.kind \in {"raise", "badjson"} \/ wx.status # 200 \/ ~wx.temp

\* The last remote call the handler made for the request failed.
LastRemoteCallFailed(r) ==
    LET R == req[r]
    IN IF R.wx_answers # <<>> THEN WxCallFailed(R.wx_answers[Len(R.wx_answers)])
       ELSE /\ R.answers # <<>>
            /\ GeoCallFailed(R.answers[Len(R.answers)].ans)

\* C12: whenever the remote call on which the weather handler's answer
\* depended failed (exception or timeout, status other than 200, no
\* temperature in the answer), the handler has replied with the 'data
\* unavailable, try later' message.
C12_UnavailableOnFailure ==
    \A r \in Reqs : (WeatherEnded(r) /\ LastRemoteCallFailed(r)) =>
       /\ ~req[r].raised
       /\ req[r].events = <<"weather_unavailable">>


(***************************************************************************)
(* Missing credentials of the LLM.                                         *)
(***************************************************************************)
\* C13: without credentials every request of the router runs to its end
\* without a suspension: the classifier returns 'chat' without a call of
\* the LLM, the chat handler enqueues the configuration-error reply and
\* returns, nothing is raised, and no model is configured.  A call of
\* _geocode normalizes the location to itself without a call of the LLM
\* and, once over, has returned what the table and the geocoder gave, or
\* raised only where a geocoder query failed.
C13_ConfinedToLLM ==
    ~credentials =>
       /\ gemini_model = "None"
       /\ \A r \in Reqs :
             /\ Routed(r) =>
                  /\ req[r].pc = "done" /\ ~req[r].raised
                  /\ req[r].intent = "chat" /\ req[r].llm_classify = 0
                  /\ req[r].handlers = <<"chat">>
                  /\ req[r].events = <<"configuration_error">>
             /\ (req[r].entry = "geocode" /\ req[r].pc # "idle") =>
                  /\ req[r].pc # "normalize_llm"
                  /\ req[r].normalized = req[r].location
                  /\ req[r].pc = "done" =>
                       IF req[r].raised
                       THEN /\ req[r].answers # <<>>
                            /\ CallFailed(req[r].answers[Len(req[r].answers)].ans)
                       ELSE req[r].ret.kind \in {"coords", "none"}

\* Without credentials a request with a weather question has got the
\* configuration-error reply, after a call of _geocode had populated the
\* shared cache with what the geocoder gave.
C13_Witness ==
    /\ ~credentials
    /\ published.mode = "merged" /\ published.got # <<>>
    /\ \E r \in Reqs :
          /\ Routed(r) /\ req[r].text = TX_wx
          /\ req[r].events = <<"configuration_error">>


(***************************************************************************)
(* The chat handler.                                                       *)
(***************************************************************************)
\* The chat handler of a request called the LLM and the call is over.
ChatCalled(r) == Routed(r) /\ req[r].chat_out.kind # "nocall"

\* C14: once the LLM call of the chat handler is over, the handler has
\* enqueued one reply and returned without raising: the reply is the text
\* of the LLM when it gave a non-empty text, 'No response from Gemini.' when
\* it gave nothing (no response object, no text, an empty text), and
\* 'Gemini call failed: <exception>' when the call raised.
C14_ReplyFromLLM ==
    \A r \in Reqs : ChatCalled(r) =>
       LET R == req[r]
           out == R.chat_out
       IN /\ R.pc = "done" /\ ~R.raised
          /\ Len(R.events) = 1
          /\ (out.kind = "text" /\ out.text # <<>>) =>
                R.reply_text = out.text /\ R.events[1] = "answer"
          /\ (out.kind = "none" \/ (out.kind = "text" /\ out.text = <<>>)) =>
                R.reply_text = T_no_response /\ R.events[1] = "no_response"
          /\ out.kind = "raise" =>
                R.reply_text = T_call_failed /\ R.events[1] = "call_failed"

\* The LLM answered with an empty text and the reply is the fallback.
C14_Witness ==
    \E r \in Reqs :
       /\ ChatCalled(r)
       /\ req[r].chat_out = LLMText(<<>>)
       /\ req[r].reply_text = T_no_response
       /\ req[r].events = <<"no_response">>


(***************************************************************************)
(* Conversation logging.                                                   *)
(***************************************************************************)
\* The request of the chat endpoint has completed: its answer is made.
Completed(r) == AtEndpoint(r) /\ req[r].pc = "done"

\* The records the calls of log_agent_response stored for the request.
StoredLogs(r) == {j \in 1..Len(req[r].logs) : req[r].logs[j].stored}

\* C15: a request that enters through the chat endpoint and completes has
\* had log_agent_response invoked exactly once, whether the router's
\* execute returned or raised, and so has at most one conversation record.
C15_LoggedOnce ==
    \A r \in Reqs : Completed(r) =>
       /\ Len(req[r].logs) = 1
       /\ Cardinality(StoredLogs(r)) <= 1

\* The log call the endpoint itself made for the request, the last on the
\* ledger.
EndpointLog(r) == req[r].logs[Len(req[r].logs)]

\* C16: whatever the stores behind the logging do, a completed request is
\* answered with HTTP 200 and the reply the handler computed (the apology
\* of process_message_with_agent if the router's execute raised), with the
\* skill of the request; a failure of the endpoint's log call shows only as
\* a false success flag.
C16_LoggingNeverFailsRequest ==
    \A r \in Reqs : Completed(r) =>
       LET R == req[r]
       IN /\ R.http.status = 200
          /\ R.logs # <<>> /\ EndpointLog(r).by = "endpoint"
          /\ R.http.success = EndpointLog(r).stored
          /\ ~R.raised =>
                /\ Len(R.events) = 1
                /\ R.http.response = R.events[1]
                /\ R.http.skill_used = R.intent
          /\ R.raised =>
                /\ R.http.response = "apology"
                /\ R.http.skill_used = "error"

\* Every log call of a request failed and the request was answered with
\* the LLM's answer and a false success flag.
C16_Witness ==
    \E r \in Reqs :
       /\ Completed(r)
       /\ \A j \in 1..Len(req[r].logs) : ~req[r].logs[j].success
       /\ req[r].http = [status |-> 200, success |-> FALSE, response |-> "answer",
                         skill_used |-> "chat"]


(***************************************************************************)
(* Cancellation.                                                           *)
(***************************************************************************)
\* C17: a cancelled request has got exactly one final 'canceled' status
\* event from cancel() whenever the event queue takes events, never more
\* than one, and never a reply message; cancel() invokes no handler's
\* execute, and the chat handler's cancel runs although the weather
\* handler's failed.
C17_OneCanceledEvent ==
    \A r \in Reqs : (Routed(r) /\ req[r].cancels # <<>>) =>
       LET R == req[r]
           c == R.cancels[1]
       IN /\ Len(R.cancel_events) <= 1
          /\ (c.weather_ok /\ c.chat_ok) => Len(R.cancel_events) = 1
          /\ \A j \in 1..Len(R.cancel_events) :
                /\ R.cancel_events[j].type = "status"
                /\ R.cancel_events[j].state = "canceled"
                /\ R.cancel_events[j].final
          /\ Len(R.handlers) <= 1
          /\ (~c.weather_ok /\ c.chat_ok) =>
                \E j \in 1..Len(R.cancel_events) : R.cancel_events[j].by = "chat"


(***************************************************************************)
(* Round trip of the memory store.                                         *)
(***************************************************************************)
\* The line '<role>: <text>' of a recorded message, as the contract writes
\* it: the role is shown as 'Người dùng' for the user and 'Assistant' for
\* the assistant.
LineOf(msg) ==
    (IF msg.role = "user"
     THEN <<"N", "g", "ư", "ờ", "i", " ", "d", "ù", "n", "g", ":", " ">>
     ELSE <<"A", "s", "s", "i", "s", "t", "a", "n", "t", ":", " ">>)
    \o msg.content

\* The messages recorded for session s that the FIFO bound has not evicted.
NotEvicted(s) ==
    {j \in 1..Len(recorded[s]) : j > Len(recorded[s]) - 2 * K}

\* The history of session s as a caller gets it rendered.
Rendered(s) == load_memory_variables(get_or_create_memory(memory_store, s)[s])

\* C18: in every state the rendered history of a session contains the line
\* of every message recorded for it and not yet evicted, with the recorded
\* text verbatim, the lines one per message separated by newlines; a
\* session with nothing recorded renders the empty history.
C18_RoundTrip ==
    \A s \in Sessions :
       /\ \A j \in NotEvicted(s) : Contains(Rendered(s), LineOf(recorded[s][j]))
       /\ recorded[s] = <<>> => Rendered(s) = <<>>
       /\ recorded[s] # <<>> =>
             LET first == CHOOSE j \in NotEvicted(s) : \A h \in NotEvicted(s) : j <= h
                 lines == [j \in 1..Cardinality(NotEvicted(s)) |->
                              LineOf(recorded[s][first + j - 1])]
             IN Len(Rendered(s)) =
                   Len(JoinLines(lines))

\* A session has had messages evicted and its history still shows the line
\* of the oldest message kept, a user turn followed by an empty reply.
C18_Witness ==
    \E s \in Sessions :
       /\ Len(recorded[s]) > 2 * K
       /\ LET j == Len(recorded[s]) - 2 * K + 1
          IN /\ recorded[s][j] = [role |-> "user", content |-> T_hi]
             /\ recorded[s][j + 1] = [role |-> "assistant", content |-> <<>>]
             /\ Contains(Rendered(s), LineOf(recorded[s][j]))


(***************************************************************************)
(* Order of the turns of a session.                                        *)
(***************************************************************************)
\* Nothing recorded for session s is moved or removed from the ledger by
\* the step: what the step records comes after every earlier turn.
AppendedOnly(s) ==
    /\ Len(recorded'[s]) >= Len(recorded[s])
    /\ SubSeq(recorded'[s], 1, Len(recorded[s])) = recorded[s]

\* The turns of request r, in the order the contract gives them: the user
\* turn with the placeholder, then, once the chat handler has replied, the
\* turn that holds the reply.
TurnsOf(R) ==
    <<[role |-> "user", content |-> R.text],
      [role |-> "assistant", content |-> <<>>]>>
    \o (IF R.chat_out.kind # "nocall"
        THEN <<[role |-> "user", content |-> R.text],
               [role |-> "assistant", content |-> R.reply_text]>>
        ELSE <<>>)

\* The window of every session is the latest part of what was recorded for
\* it, in the order of recording, and what was recorded since the request in
\* progress arrived is the turns of that request, user turn before
\* assistant turn.
InArrivalOrder ==
    /\ \A s \in DOMAIN memory_store :
          memory_store[s].messages = LastN(recorded[s], 2 * K)
    /\ \A r \in Reqs : Routed(r) =>
          LET rec == recorded[req[r].context_id]
          IN SubSeq(rec, req[r].rec_pos, Len(rec)) = TurnsOf(req[r])

\* C19: with the requests of a session served one at a time, every step
\* leaves the turns recorded so far in their place and appends the turns of
\* the request in progress after them, its user turn before its assistant
\* turn: the window of the session holds the turns in the order in which
\* the requests arrived.
C19_ArrivalOrder ==
    [][InArrivalOrder' /\ \A s \in Sessions : AppendedOnly(s)]_vars

\* The second request of a session has been answered by the chat handler:
\* its turns follow those of the first.
C19_Witness ==
    \E r \in Reqs :
       /\ Routed(r) /\ req[r].pc = "done"
       /\ req[r].rec_pos = 5
       /\ req[r].chat_out.kind = "text"
       /\ Len(recorded[req[r].context_id]) = 8
       /\ memory_store[req[r].context_id].messages = recorded[req[r].context_id]


(***************************************************************************)
(* The placeholder of a request.                                           *)
(***************************************************************************)
\* The message of the session's window at place p of the ledger of
\* everything recorded for the session.
WindowAt(cid, p) ==
    memory_store[cid].messages[p - (Len(recorded[cid]) - Len(memory_store[cid].messages))]

\* C20: once a request has completed, through either skill, the assistant
\* turn that follows its user turn in the session's window is not the empty
\* placeholder any more, and for the chat skill it holds the text of the
\* reply.
C20_PlaceholderReplaced ==
    \A r \in Reqs :
       (Routed(r) /\ req[r].pc = "done" /\ ~req[r].raised /\ req[r].events # <<>>) =>
          LET R == req[r]
              p == R.rec_pos
              kept == p > Len(recorded[R.context_id])
                            - Len(memory_store[R.context_id].messages)
          IN kept =>
               /\ WindowAt(R.context_id, p) = [role |-> "user", content |-> R.text]
               /\ WindowAt(R.context_id, p + 1).role = "assistant"
               /\ WindowAt(R.context_id, p + 1).content # <<>>
               /\ R.chat_out.kind # "nocall" =>
                     WindowAt(R.context_id, p + 1).content = R.reply_text


(***************************************************************************)
(* Resolve calls while the cache is being populated.                       *)
(***************************************************************************)
\* The call of _geocode read the location table when the shared cache was
\* empty and a background population task was still running.
ArrivedDuringPopulation(r) ==
    /\ req[r].entry = "geocode"
    /\ req[r].cache_at_read = "empty"
    /\ req[r].task_at_read

\* C21: a call of _geocode that finds the shared cache empty while a
\* population task is running waits for no population (neither the task's
\* nor one of its own) and does not fail: it sends the remote query for its
\* own candidate and returns what that query gave.
C21_FallsThrough ==
    \A r \in Reqs : ArrivedDuringPopulation(r) =>
       /\ req[r].pc # "fetching"
       /\ fetch[<<"call", r>>].pc = "idle"
       /\ req[r].seen_src # "fetch"
       /\ Resolved(r) =>
            /\ ~req[r].raised
            /\ req[r].answers # <<>>
            /\ LET last == req[r].answers[Len(req[r].answers)].ans
               IN IF Usable(last)
                  THEN /\ req[r].ret.kind = "coords"
                       /\ req[r].ret.lat = Preferred(last).latitude
                       /\ req[r].ret.lon = Preferred(last).longitude
                  ELSE req[r].ret = RetNone


(***************************************************************************)
(* The lifetime of the shared location table.                              *)
(***************************************************************************)
\* The shared table has no entries, or its age has reached the lifetime of
\* 24 hours.
Stale ==
    \/ CLASS_LOCATIONS_CACHE = <<>>
    \/ now - CLASS_CACHE_TIMESTAMP >= CLASS_CACHE_DURATION

\* In this step call r asks for the location table.
Reads(r) == req[r].pc = "idle" /\ req'[r].pc # "idle"

\* In this step a run of the population is started: the background task of
\* an instance is created, or a call begins a run that it awaits.
Starts(f) == fetch[f].pc = "idle" /\ fetch'[f].pc # "idle"

PreloadTable ==
    IF geo_fixed.client_ok
    THEN DictMerge(MAJOR_CITIES_FALLBACK,
                   PassesOver(<<>>, vietnam_queries, geo_fixed.answers))
    ELSE MAJOR_CITIES_FALLBACK

\* A call of preload_locations has returned.
Preloaded(r) == req[r].entry = "preload" /\ req[r].pc = "done"

\* C23: with an environment that behaves the same way every time, however
\* many calls of preload_locations were made, one after the other or
\* overlapping, the shared cache, once a run has published, holds the table
\* that one call on its own leaves there, and every call that has returned
\* has returned that table.
C23_PreloadIdempotent ==
    /\ published.mode # "none" => CLASS_LOCATIONS_CACHE = PreloadTable
    /\ \A r \in Reqs : Preloaded(r) =>
          /\ req[r].seen = PreloadTable
          /\ CLASS_LOCATIONS_CACHE = PreloadTable

\* A call has returned the table, which holds a place only the geocoder
\* knows, while another call, begun before the first publication, is still
\* in its second pass, and both background tasks have been started.
C23_Witness ==
    \E r, q \in Reqs :
       /\ Preloaded(r)
       /\ req[q].entry = "preload" /\ req[q].pc = "fetching"
       /\ fetch[<<"call", q>>].i = 2
       /\ DictHas(req[r].seen, Lower(N_CaMau))
       /\ \A i \in Insts : fetch[<<"task", i>>].pc # "idle"


(***************************************************************************)
(* Timeouts of the remote calls.                                           *)
(***************************************************************************)
\* C24: every remote call carries a bounded timeout, so that every request
\* received comes to its end, whatever the remote collaborators do.
C24_EveryRequestCompletes ==
    \A r \in Reqs : (req[r].pc # "idle") ~> (req[r].pc = "done")


(***************************************************************************)
(* C25: the skill label of a request.                                      *)
(***************************************************************************)
\* The wrapper's call r has returned its result.
WrapperReturned(r) ==
    /\ req[r].entry = "wrapper"
    /\ req[r].pc = "done"
    /\ ~req[r].raised

\* C25: the skill label in the result the wrapper returns for a message,
\* and on the exchange it logged for it, is the intent the classifier
\* produced for that message, also when calls are interleaved on one router.
C25_LabelIsOwnIntent ==
    \A r \in Reqs :
        WrapperReturned(r) =>
            /\ req[r].result.skill_used = req[r].intent
            /\ req[r].logs[Len(req[r].logs)].skill_used = req[r].intent


(***************************************************************************)
(* C26: the end-to-end weather scenario.                                   *)
(***************************************************************************)
\* 'Thời tiết tại Hà Nội: Nhiệt độ hiện tại: 28°C — Trời quang.', written
\* as the model writes texts.
T_weather_hanoi_28 ==
    <<"Thời tiết tại ", "H", "à", " ", "N", "ộ", "i", ": ", "Nhiệt ddộ hiện tại: ",
      "2", "8", "°C -- ", "Trời quang", ".">>

\* The endpoint has the answer to the scenario's message, sent while the
\* geocoder gives a result of country VN and the weather service gives
\* temperature 28 and weather code 0.
WeatherScenarioDone(r) ==
    /\ AtEndpoint(r)
    /\ req[r].pc = "done"
    /\ req[r].text = TX_hanoi_today
    /\ IsVN(geo_fixed.item)
    /\ geo_fixed.weather = WxCurrent(28, FALSE, 0)

\* The reply and the skill label the scenario names.
WeatherScenarioAnswer(r) ==
    /\ req[r].events = <<"weather_report">>
    /\ agent_text(req[r].reply_text) = T_weather_hanoi_28
    /\ req[r].http.status = 200
    /\ req[r].http.skill_used = "weather"

\* The classifier's LLM answered with the weather label and the geocoder
\* names its result 'Hà Nội'.
WeatherScenarioLLM(r) ==
    /\ classify_answer(req[r].cls_out) = "weather"
    /\ geo_fixed.item.name = N_HaNoi

ChatScenarioDone(r) ==
    /\ AtEndpoint(r)
    /\ req[r].pc = "done"
    /\ req[r].text = T_xin_chao
    /\ req[r].cls_out = LLMText(A_chat)
    /\ req[r].chat_out = LLMText(T_chao_ban)

\* C27: the message 'xin chào', with the LLM classifier returning 'chat' and
\* the chat completion returning 'Chào bạn!', yields the reply 'Chào bạn!'
\* and the skill label 'chat'.
C27_ChatScenario ==
    \A r \in Reqs :
        ChatScenarioDone(r) =>
            /\ req[r].events = <<"answer">>
            /\ agent_text(req[r].reply_text) = T_chao_ban
            /\ req[r].handlers = <<"chat">>
            /\ req[r].http.status = 200
            /\ req[r].http.skill_used = "chat"

C27_Witness ==
    \E r \in Reqs :
        /\ ChatScenarioDone(r)
        /\ req[r].result.skill_used = "chat"
        /\ Len(req[r].logs) = 2


(***************************************************************************)
(* C28: the normaliser fails open.                                         *)
(***************************************************************************)
\* The call r of the normaliser has returned or raised.
NormalizeOver(r) == req[r].entry = "normalize" /\ req[r].pc = "done"

\* The LLM call of r failed: no model is configured, the call raised, or it
\* gave no text or an empty one.
NormalizeLLMFailed(r) ==
    \/ gemini_model = "None"
    \/ req[r].norm_out.kind \in {"raise", "none"}
    \/ req[r].norm_out = LLMText(<<>>)

\* C28: whatever the candidate, when the LLM call fails (it raises, times
\* out, no model is configured, the answer is empty) the normaliser returns
\* the candidate unchanged and does not raise.
C28_FailOpen ==
    \A r \in Reqs :
        (NormalizeOver(r) /\ NormalizeLLMFailed(r)) =>
            /\ ~req[r].raised
            /\ req[r].normalized = req[r].location

C28_Witness ==
    \E r \in Reqs :
        /\ NormalizeOver(r)
        /\ req[r].norm_out = LLMNone
        /\ req[r].location = L_HANOI
        /\ req[r].normalized = L_HANOI


(***************************************************************************)
(* C29: what _extract_location removes.                                    *)
(***************************************************************************)
\* The call r of _extract_location has returned.
ExtractOver(r) == req[r].entry = "extract" /\ req[r].pc = "done"

\* What is left of the text once the keyword and what precedes it, the
\* punctuation and the surrounding white space are gone.
AfterKeywordAndPunctuation(text) == Strip(sub_punctuation(after_keyword(Strip(text))))

\* The length of the time words at the tail of c, with the white space
\* between and after them.
RECURSIVE TailTimeWords(_)
TailTimeWords(c) ==
    LET s == RStrip(c)
        ends == {p \in 1..Len(s) : time_word_at(s, p) > 0 /\ p + time_word_at(s, p) - 1 = Len(s)}
    IN IF ends = {} THEN Len(c) - Len(s)
       ELSE LET p == CHOOSE q \in ends : TRUE
            IN (Len(c) - p + 1) + TailTimeWords(SubSeq(s, 1, p - 1))

\* The text with the time words at its tail removed, and nothing else.
WithoutTailTimeWords(c) == RStrip(SubSeq(c, 1, Len(c) - TailTimeWords(c)))

\* C29: _extract_location removes the keyword prefix, the punctuation and
\* the time words at the tail of the message; what it returns is what
\* remains (none if and only if nothing remains), with the time words that
\* are not at the tail left in place.
C29_TailTimeWordsOnly ==
    \A r \in Reqs :
        ExtractOver(r) =>
            req[r].location = WithoutTailTimeWords(AfterKeywordAndPunctuation(req[r].text))


(***************************************************************************)
(* C30: the user turn of a chat request.                                   *)
(***************************************************************************)
\* The places, in the ledger of what was recorded for the session of
\* request r, of the messages recorded since r arrived that the window
\* still holds.
OwnPlaces(r) ==
    LET cid == req[r].context_id
    IN {p \in req[r].rec_pos..Len(recorded[cid]) :
           p > Len(recorded[cid]) - Len(memory_store[cid].messages)}

\* C30: after a chat request has completed, its user text occurs exactly
\* once as a user turn in the session's window, and the chat handler has
\* added the assistant reply only.
C30_UserTurnOnce ==
    \A r \in Reqs :
        (Routed(r) /\ req[r].pc = "done" /\ req[r].chat_out.kind # "nocall") =>
            LET cid == req[r].context_id
                user_turn == [role |-> "user", content |-> req[r].text]
            IN /\ Cardinality({p \in OwnPlaces(r) : WindowAt(cid, p) = user_turn}) = 1
               /\ Len(recorded[cid]) - req[r].rec_pos + 1 <= 3


(***************************************************************************)
(* C31: what the window of a session keeps.                                *)
(***************************************************************************)
\* Every request of the session has completed.
AllCompleted == \A r \in Reqs : req[r].pc \in {"idle", "done"}

\* The requests completed on session s1, all answered by the chat handler:
\* request i recorded messages 4i-3 .. 4i of the ledger, its user text
\* first and its reply last.
CompletedRequests == Len(recorded["s1"]) \div 4
UserLineOf(i) == HistoryLine([role |-> "user", content |-> recorded["s1"][4 * i - 3].content])
ReplyLineOf(i) == HistoryLine(recorded["s1"][4 * i])

\* The line is one of the lines of the rendered history of session s1.
InHistory(line) ==
    \E j \in 1..Len(HistoryLines(memory_store["s1"])) :
        HistoryLines(memory_store["s1"])[j] = line

\* C31: after any sequence of completed requests on a session, the user
\* text and the reply of each of the 5 most recent requests (of all of them
\* when there were fewer) are in the rendered history.
C31_FivePairsKept ==
    AllCompleted =>
        \A i \in 1..CompletedRequests :
            i > CompletedRequests - K => InHistory(UserLineOf(i)) /\ InHistory(ReplyLineOf(i))


(***************************************************************************)
(* C32: a window belongs to one session.                                   *)
(***************************************************************************)
\* The session a request that takes the step belongs to: a request whose
\* state changes, with the context_id it has or is received with.
StepOfSession(s) ==
    \E r \in Reqs :
        /\ req'[r] # req[r]
        /\ s = (IF req[r].pc = "idle" THEN req'[r].context_id ELSE req[r].context_id)

\* What a step does to the window of session s: the window stays once it is
\* there; it is what it was (nothing, when the step creates it) followed by
\* what the step recorded for s, cut to its size; only a request of s
\* records for s; and a lookup of s gives the window that is there.
OwnWindowStep(s) ==
    LET old == IF s \in DOMAIN memory_store THEN memory_store[s].messages ELSE <<>>
        new == SubSeq(recorded'[s], Len(recorded[s]) + 1, Len(recorded'[s]))
    IN /\ s \in DOMAIN memory_store => s \in DOMAIN memory_store'
       /\ s \in DOMAIN memory_store' =>
             /\ memory_store'[s].messages = LastN(old \o new, 2 * K)
             /\ get_or_create_memory(memory_store', s) = memory_store'
       /\ s \notin DOMAIN memory_store' => new = <<>>
       /\ new # <<>> => StepOfSession(s)

\* C32: a request or record on one session leaves the window of every other
\* session unchanged, the window of a session is created empty on its first
\* message, and get_or_create_memory gives the same window for the same
\* session on every later call.
C32_WindowPerSession == [][\A s \in Sessions : OwnWindowStep(s)]_vars

\* Both sessions have a window, each with its own messages, while a request
\* of one of them is in progress.
C32_Witness ==
    /\ DOMAIN memory_store = {"s1", "s2"}
    /\ Len(memory_store["s1"].messages) = 4
    /\ Len(memory_store["s2"].messages) = 2
    /\ memory_store["s1"].messages[1].content # memory_store["s2"].messages[1].content
    /\ \E r \in Reqs : req[r].pc = "chat_llm" /\ req[r].context_id = "s2"


(***************************************************************************)
(* C33: the populations in flight.                                         *)
(***************************************************************************)
\* The runs of _fetch_vietnam_provinces that have begun and not ended: a
\* query is awaited, the run sleeps between two queries, or it closes its
\* client.
InFlight == {f \in FetchIds : fetch[f].pc \in {"get", "sleep", "closing"}}

\* C33: at any time at most one population is in flight in the process,
\* whatever instances are created and whatever calls find the cache empty
\* or expired.
C33_OnePopulation == Cardinality(InFlight) <= 1


(***************************************************************************)
(* C34: one reply per call of execute.                                     *)
(***************************************************************************)
\* The call of the router's execute, made directly or through the chat
\* endpoint, has returned to its caller without raising.
ReturnedNormally(r) ==
    /\ req[r].entry \in {"execute", "endpoint"}
    /\ req[r].trace = Stages

\* C34: a call of the router's execute never has two replies on the event
\* queue, has none before its handler ends, and once it has returned
\* normally has exactly one, a reply of the handler it dispatched to, in
\* every branch of the two handlers.
C34_OneReplyPerExecute ==
    \A r \in Reqs : req[r].entry \in {"execute", "endpoint"} =>
       LET R == req[r]
       IN /\ Len(R.events) <= 1
          /\ R.events # <<>> => ReturnedNormally(r)
          /\ ReturnedNormally(r) =>
                /\ ~R.raised
                /\ Len(R.events) = 1
                /\ Len(R.handlers) = 1
                /\ R.handlers[1] = "weather" => R.events[1] \in WeatherReplies
                /\ R.handlers[1] = "chat" => R.events[1] \in ChatReplies

\* A call has returned through the weather handler, which found no weather
\* data for the place: its one reply is the 'try later' message.
C34_Witness ==
    \E r \in Reqs :
       /\ ReturnedNormally(r)
       /\ req[r].handlers = <<"weather">>
       /\ req[r].events = <<"weather_unavailable">>


(***************************************************************************)
(* C35: a name that normalization emptied.                                 *)
(***************************************************************************)
\* The call of _geocode returned an entry of the table it consulted, not an
\* answer of the remote geocoder.
ReturnedCacheEntry(r) ==
    /\ Resolved(r)
    /\ req[r].answers = <<>>
    /\ req[r].ret.kind = "coords"

\* C35: a call of _geocode whose candidate is not blank and whose
\* normalized name, lowercased and stripped, is empty returns no entry of
\* the table.
C35_NoEntryForEmptyName ==
    \A r \in Reqs :
       ( /\ Resolved(r)
         /\ ~is_blank(req[r].location)
         /\ Strip(Lower(req[r].normalized)) = <<>> )
       => ~ReturnedCacheEntry(r)


(***************************************************************************)
(* ConversationService (src/service/conversation_service.py) over the      *)
(* relational store (src/utils/database_utils.py) and the key-value cache  *)
(* (src/utils/redis_utils.py).  Every method is a coroutine: it runs to    *)
(* its next await of a store and is resumed with the store's answer.       *)
(***************************************************************************)
\* The store and the calls as one value.
Store == [conversations |-> conversations, redis |-> redis, svc |-> svc]

CommitStore(T) ==
    /\ conversations' = T.conversations
    /\ redis' = T.redis
    /\ svc' = T.svc
    /\ UNCHANGED <<memVars, llmVars, callVars, cacheVars>>

\* The call's fields changed to those of the record `changes`.
SetSvc(T, c, changes) ==
    [T EXCEPT !.svc[c] =
        [f \in DOMAIN @ |-> IF f \in DOMAIN changes THEN changes[f] ELSE @[f]]]

\* What db_execute, db_fetch_one and db_fetch_all do (database_utils.py
\* 11-50): acquire a connection, run the statement, release the connection
\* in a finally.  "ok": the three awaits succeed.  "failed": the acquire or
\* the statement raises, and the statement has no effect.  "release_failed":
\* the statement was run and pool.release raises, so the function raises
\* after the statement took effect.
DbOutcomes == {"ok", "failed", "release_failed"}
DbRaised(out) == out # "ok"
DbApplied(out) == out # "failed"

\* The rows of the session, and their identifiers.
RowsOf(rows, s) == SelectSeq(rows, LAMBDA row : row.session_id = s)
IdsOf(rows, s) ==
    {rows[j].conversation_id : j \in {k \in 1..Len(rows) : rows[k].session_id = s}}

\* return True / return False of a method, and the return of a reader.
svc_return(T, c, flag) == SetSvc(T, c, [pc |-> "done", flag |-> flag])

\* log_conversation up to its first await (lines 37-61): the identifier is
\* drawn and the INSERT is sent.
log_conversation_begin(T, c, s) ==
    SetSvc(T, c, [op |-> "log_conversation", pc |-> "insert",
                  session_id |-> s, conversation_id |-> c])

\* db_execute(INSERT) is over (lines 52-61): the row is in the table when
\* the statement was run; when db_execute raised, the except of line 75
\* returns False.
log_conversation_inserted(T, c, out) ==
    LET C == T.svc[c]
        row == [conversation_id |-> C.conversation_id, session_id |-> C.session_id]
        T1 == IF DbApplied(out)
              THEN SetSvc([T EXCEPT !.conversations = Append(@, row)], c,
                          [inserted |-> TRUE])
              ELSE T
    IN IF DbRaised(out) THEN svc_return(T1, c, "False")
       ELSE SetSvc(T1, c, [pc |-> "cache"])

\* _cache_conversation (lines 79-104): redis_set of the key of the
\* conversation; the except swallows a failure.
_cache_conversation(T, c, ok) ==
    LET T1 == IF ok THEN [T EXCEPT !.redis.conversation =
                                      @ \cup {T.svc[c].conversation_id}]
              ELSE T
    IN SetSvc(T1, c, [pc |-> "summary_get"])

\* _update_session_summary after its redis_get (lines 111-127): the stored
\* summary or a new one, with one conversation more and this one as the
\* last; when redis_get raised the except swallows it and log_conversation
\* returns True (lines 72-73).
_update_session_summary_read(T, c, ok) ==
    LET cur == T.redis.session_summary[T.svc[c].session_id]
        base == IF cur.present THEN cur ELSE Summary(0, 0)
    IN IF ok
       THEN SetSvc(T, c, [pc |-> "summary_set",
                          summary |-> Summary(base.total_conversations + 1,
                                              T.svc[c].conversation_id)])
       ELSE svc_return(T, c, "True")

\* _update_session_summary's redis_set (line 130), then log_conversation
\* returns True.
_update_session_summary_write(T, c, ok) ==
    LET C == T.svc[c]
        T1 == IF ok THEN [T EXCEPT !.redis.session_summary[C.session_id] = C.summary]
              ELSE T
    IN svc_return(T1, c, "True")

\* delete_session up to its first await (lines 254-259).
delete_session_begin(T, c, s) ==
    SetSvc(T, c, [op |-> "delete_session", pc |-> "delete", session_id |-> s])

\* db_execute(DELETE) is over (lines 256-259, 267-269).
delete_session_deleted(T, c, out) ==
    LET s == T.svc[c].session_id
        T0 == SetSvc(T, c, [had |-> IdsOf(T.conversations, s)])
        T1 == IF DbApplied(out)
              THEN SetSvc([T0 EXCEPT !.conversations =
                              SelectSeq(@, LAMBDA row : row.session_id # s)],
                          c, [applied |-> TRUE])
              ELSE T0
    IN IF DbRaised(out) THEN svc_return(T1, c, "False")
       ELSE SetSvc(T1, c, [pc |-> "redis_delete"])

\* redis_delete of the summary's key is over (lines 262-269).
delete_session_uncached(T, c, ok) ==
    IF ok
    THEN svc_return([T EXCEPT !.redis.session_summary[T.svc[c].session_id] = NoSummary],
                    c, "True")
    ELSE svc_return(T, c, "False")

\* get_conversation_history (lines 135-166): the rows of the session, or []
\* when db_fetch_all raised.  The order of the rows is left out, and LIMIT
\* 10 is more than the rows of a behaviour.
get_conversation_history_begin(T, c, s) ==
    SetSvc(T, c, [op |-> "get_conversation_history", pc |-> "fetch_all",
                  session_id |-> s])

get_conversation_history_fetched(T, c, out) ==
    SetSvc(T, c, [pc |-> "done",
                  ret_rows |-> IF DbRaised(out) THEN {}
                               ELSE IdsOf(T.conversations, T.svc[c].session_id)])

\* The summary computed from the table (lines 179-197): COUNT(*) gives a
\* row for every session, and the summary has no last_conversation_id.
summary_from_rows(rows, s) == Summary(Len(RowsOf(rows, s)), 0)

\* get_session_summary (lines 168-210).
get_session_summary_begin(T, c, s) ==
    SetSvc(T, c, [op |-> "get_session_summary", pc |-> "summary_get",
                  session_id |-> s])

\* redis_get is over (lines 173-176): the cached summary is returned;
\* without one the table is asked; a failure returns None (208-210).
get_session_summary_cached(T, c, ok) ==
    LET cur == T.redis.session_summary[T.svc[c].session_id]
    IN IF ~ok THEN SetSvc(T, c, [pc |-> "done", ret_none |-> TRUE])
       ELSE IF cur.present THEN SetSvc(T, c, [pc |-> "done", ret_summary |-> cur])
       ELSE SetSvc(T, c, [pc |-> "fetch_one"])

\* db_fetch_one is over (lines 189-201).
get_session_summary_fetched(T, c, out) ==
    IF DbRaised(out) THEN SetSvc(T, c, [pc |-> "done", ret_none |-> TRUE])
    ELSE SetSvc(T, c, [pc |-> "summary_set",
                       summary |-> summary_from_rows(T.conversations,
                                                     T.svc[c].session_id)])

\* redis_set of the computed summary is over (lines 201-202): a failure is
\* caught by the except of the method, which returns None.
get_session_summary_stored(T, c, ok) ==
    LET C == T.svc[c]
    IN IF ok
       THEN SetSvc([T EXCEPT !.redis.session_summary[C.session_id] = C.summary],
                   c, [pc |-> "done", ret_summary |-> C.summary])
       ELSE SetSvc(T, c, [pc |-> "done", ret_none |-> TRUE])

\* get_conversation_by_id (lines 212-249).
get_conversation_by_id_begin(T, c, id) ==
    SetSvc(T, c, [op |-> "get_conversation_by_id", pc |-> "detail_get",
                  conversation_id |-> id])

\* redis_get is over (lines 217-221): the cached detail is returned.
get_conversation_by_id_cached(T, c, ok) ==
    IF ~ok THEN SetSvc(T, c, [pc |-> "done", ret_none |-> TRUE])
    ELSE IF T.svc[c].conversation_id \in T.redis.conversation_detail
         THEN SetSvc(T, c, [pc |-> "done", ret_rows |-> {T.svc[c].conversation_id}])
    ELSE SetSvc(T, c, [pc |-> "fetch_one"])

\* json.dumps(conversation) (line 242) of a row read from the table: the
\* row holds created_at, the datetime log_conversation stored (lines 40,
\* 60), which json.dumps cannot serialize; it raises TypeError.
json_dumps_row_raises == TRUE

\* db_fetch_one is over (lines 231-249): no row gives None; for a row,
\* json.dumps raises before redis_set is called and the except of the
\* method returns None.
get_conversation_by_id_fetched(T, c, out) ==
    LET found == T.svc[c].conversation_id \in
                    {T.conversations[j].conversation_id : j \in 1..Len(T.conversations)}
    IN IF DbRaised(out) \/ ~found \/ json_dumps_row_raises
       THEN SetSvc(T, c, [pc |-> "done", ret_none |-> TRUE])
       ELSE SetSvc([T EXCEPT !.redis.conversation_detail =
                       @ \cup {T.svc[c].conversation_id}],
                   c, [pc |-> "done", ret_rows |-> {T.svc[c].conversation_id}])

(***************************************************************************)
(* Specification of the conversation service: calls of its methods on the  *)
(* sessions, interleaved at their awaits, with stores that answer or fail. *)
(***************************************************************************)
\* The next call: calls are numbered in the order they are made.
NextSvc(c) == svc[c].pc = "idle" /\ \A d \in SvcCalls : d < c => svc[d].pc # "idle"

LogConversation(c, s) ==
    NextSvc(c) /\ CommitStore(log_conversation_begin(Store, c, s))

DeleteSession(c, s) ==
    NextSvc(c) /\ CommitStore(delete_session_begin(Store, c, s))

GetConversationHistory(c, s) ==
    NextSvc(c) /\ CommitStore(get_conversation_history_begin(Store, c, s))

GetSessionSummary(c, s) ==
    NextSvc(c) /\ CommitStore(get_session_summary_begin(Store, c, s))

GetConversationById(c, id) ==
    NextSvc(c) /\ CommitStore(get_conversation_by_id_begin(Store, c, id))

\* The relational store answers the statement the call awaits.
DbAnswered(c, out) ==
    LET C == svc[c]
    IN CASE C.op = "log_conversation" /\ C.pc = "insert" ->
               CommitStore(log_conversation_inserted(Store, c, out))
         [] C.op = "delete_session" /\ C.pc = "delete" ->
               CommitStore(delete_session_deleted(Store, c, out))
         [] C.op = "get_conversation_history" /\ C.pc = "fetch_all" ->
               CommitStore(get_conversation_history_fetched(Store, c, out))
         [] C.op = "get_session_summary" /\ C.pc = "fetch_one" ->
               CommitStore(get_session_summary_fetched(Store, c, out))
         [] C.op = "get_conversation_by_id" /\ C.pc = "fetch_one" ->
               CommitStore(get_conversation_by_id_fetched(Store, c, out))
         [] OTHER -> FALSE

\* The key-value cache answers the command the call awaits, or fails.
RedisAnswered(c, ok) ==
    LET C == svc[c]
    IN CASE C.op = "log_conversation" /\ C.pc = "cache" ->
               CommitStore(_cache_conversation(Store, c, ok))
         [] C.op = "log_conversation" /\ C.pc = "summary_get" ->
               CommitStore(_update_session_summary_read(Store, c, ok))
         [] C.op = "log_conversation" /\ C.pc = "summary_set" ->
               CommitStore(_update_session_summary_write(Store, c, ok))
         [] C.op = "delete_session" /\ C.pc = "redis_delete" ->
               CommitStore(delete_session_uncached(Store, c, ok))
         [] C.op = "get_session_summary" /\ C.pc = "summary_get" ->
               CommitStore(get_session_summary_cached(Store, c, ok))
         [] C.op = "get_session_summary" /\ C.pc = "summary_set" ->
               CommitStore(get_session_summary_stored(Store, c, ok))
         [] C.op = "get_conversation_by_id" /\ C.pc = "detail_get" ->
               CommitStore(get_conversation_by_id_cached(Store, c, ok))
         [] OTHER -> FALSE

NextService ==
    \/ \E c \in SvcCalls, s \in Sessions : LogConversation(c, s)
    \/ \E c \in SvcCalls, s \in Sessions : DeleteSession(c, s)
    \/ \E c \in SvcCalls, s \in Sessions : GetConversationHistory(c, s)
    \/ \E c \in SvcCalls, s \in Sessions : GetSessionSummary(c, s)
    \/ \E c \in SvcCalls, id \in ConversationIds : GetConversationById(c, id)
    \/ \E c \in SvcCalls, out \in DbOutcomes : DbAnswered(c, out)
    \/ \E c \in SvcCalls, ok \in BOOLEAN : RedisAnswered(c, ok)

SpecService == InitMem /\ [][NextService]_vars


(***************************************************************************)
(* The conversation store.                                                 *)
(***************************************************************************)
\* A call of the method has returned.
SvcReturned(c, op) == svc[c].op = op /\ svc[c].pc = "done"

\* A DELETE of the session's rows was applied.
DeletedFrom(s) ==
    \E d \in SvcCalls : /\ svc[d].op = "delete_session"
                        /\ svc[d].session_id = s /\ svc[d].applied

\* The identifiers of the rows of the table.
StoredIds == {conversations[j].conversation_id : j \in 1..Len(conversations)}

\* C36: a call of log_conversation that is over has returned a flag (it
\* raises nothing); the flag is True if and only if the call's row was
\* inserted into the table, whatever the key-value cache did, and the row
\* of a call that returned True stays in the table until the session is
\* deleted.
C36_SuccessFlag ==
    \A c \in SvcCalls : SvcReturned(c, "log_conversation") =>
       LET C == svc[c]
       IN /\ C.flag \in {"True", "False"}
          /\ C.flag = "True" <=> C.inserted
          /\ (C.flag = "True" /\ ~DeletedFrom(C.session_id)) =>
                C.conversation_id \in StoredIds

\* What get_session_summary(s) returns when the stores answer it: the
\* cached summary, or the one computed from the table.
SummaryNow(s) ==
    IF redis.session_summary[s].present THEN redis.session_summary[s]
    ELSE summary_from_rows(conversations, s)

\* The identifier of the conversation of the session stored last.
LoggedLast(s) ==
    LET rows == RowsOf(conversations, s)
    IN IF rows = <<>> THEN 0 ELSE rows[Len(rows)].conversation_id

\* Calls of log_conversation were made for the session, each one is over
\* and returned True, and no delete_session was called for it.
AllLogged(s) ==
    /\ \E c \in SvcCalls : svc[c].op = "log_conversation" /\ svc[c].session_id = s
    /\ \A c \in SvcCalls :
          (svc[c].op = "log_conversation" /\ svc[c].session_id = s) =>
             svc[c].pc = "done" /\ svc[c].flag = "True"
    /\ \A c \in SvcCalls : ~(svc[c].op = "delete_session" /\ svc[c].session_id = s)

\* C37: once the calls of log_conversation made for a session have all
\* returned True, the summary get_session_summary returns counts the
\* conversations stored for the session and names the one logged last.
C37_SummaryCounts ==
    \A s \in Sessions : AllLogged(s) =>
       /\ SummaryNow(s).total_conversations = Len(RowsOf(conversations, s))
       /\ SummaryNow(s).last_conversation_id = LoggedLast(s)

\* get_conversation_by_id(id) returns a conversation when the stores answer
\* it: only a cached detail is ever returned, for json.dumps fails on the
\* row read from the table.
FoundById(id) ==
    \/ id \in redis.conversation_detail
    \/ id \in StoredIds /\ ~json_dumps_row_raises

\* No other call of delete_session for the session had its DELETE applied.
OnlyDelete(d) ==
    \A e \in SvcCalls :
       (e # d /\ svc[e].op = "delete_session"
              /\ svc[e].session_id = svc[d].session_id) => ~svc[e].applied

\* C38: once delete_session(s) has returned True, none of the conversations
\* s had is in its history or is returned by get_conversation_by_id, and as
\* long as no conversation is stored for s its summary reports none; once it
\* has returned False, every conversation s had is still stored.
C38_DeleteRemovesSession ==
    \A d \in SvcCalls : SvcReturned(d, "delete_session") =>
       LET D == svc[d]
           s == D.session_id
       IN /\ D.flag = "True" =>
               /\ D.had \cap IdsOf(conversations, s) = {}
               /\ \A id \in D.had : ~FoundById(id)
               /\ RowsOf(conversations, s) = <<>> =>
                     SummaryNow(s).total_conversations = 0
          /\ (D.flag = "False" /\ OnlyDelete(d)) => D.had \subseteq StoredIds

====
